---- MODULE Spec2Model ----
(***************************************************************************)
(* FlightManager: the parameter diff engine (parse_params, filter_params,  *)
(* compare_params), the checklist rule evaluator (validate_checklist_rule, *)
(* _safe_eval) and the log retention pass (FileManager.cleanup_logs).      *)
(*                                                                         *)
(* Text is a sequence of one-character strings, so that splitting,         *)
(* trimming, prefix tests and matching are computed as the code computes   *)
(* them.                                                                   *)
(***************************************************************************)
EXTENDS Integers, Sequences, FiniteSets, TLC

VARIABLES
    \* compare_params
    dpc, current_content, ref_content, ignore_patterns,
    curr_dict, ref_dict, added, removed, changed,
    \* validate_checklist_rule
    vpc, value, rule_str, val_str, eval_value, val_bool, rules, ri,
    tokens, tree, result, raised, evaluated,
    \* cleanup_logs: the directory, then the locals of each call
    disk, present, dir_state, base_dir, args, cpc,
    excluded_paths, deleted_count, files, dir_list, remaining_files,
    total_size, pos, ret, removals,
    \* LogService.validate_log_entry
    lpc, flight_no, date, vehicle, checklist_items, errors, li, log_ret

dvars == <<dpc, current_content, ref_content, ignore_patterns,
           curr_dict, ref_dict, added, removed, changed>>

rvars == <<vpc, value, rule_str, val_str, eval_value, val_bool, rules, ri,
           tokens, tree, result, raised, evaluated>>

cvars == <<disk, present, dir_state, base_dir, args, cpc,
           excluded_paths, deleted_count, files, dir_list, remaining_files,
           total_size, pos, ret, removals>>

lvars == <<lpc, flight_no, date, vehicle, checklist_items, errors, li, log_ret>>

vars == <<dvars, rvars, cvars, lvars>>

\* what the steps of one operation leave alone: the state of the others
OutsideDiff == <<rvars, cvars, lvars>>

OutsideRule == <<dvars, cvars, lvars>>

OutsideClean == <<dvars, rvars, lvars>>

(***************************************************************************)
(* Bounds of the checked inputs.                                           *)
(***************************************************************************)
MaxLines == 2
MaxPatterns == 1
MaxRules == 2
MaxFiles == 2
MaxExcluded == 1
MaxItems == 2

(***************************************************************************)
(* Python str primitives on character sequences.                           *)
(***************************************************************************)
NL == "\n"

IsSpace(c) == c \in {" ", "\t", NL}

\* s[a..b], empty when a > b
Slice(s, a, b) == IF a > b THEN <<>> ELSE SubSeq(s, a, b)

\* sub in s  (substring test), and the index of its first occurrence (0: none)
StartsAt(s, sub, i) ==
    /\ i + Len(sub) - 1 <= Len(s)
    /\ \A j \in 1..Len(sub) : s[i + j - 1] = sub[j]

Find(s, sub) ==
    LET hits == {i \in 1..Len(s) : StartsAt(s, sub, i)}
    IN  IF hits = {} THEN 0 ELSE CHOOSE i \in hits : \A j \in hits : i <= j

\* s.split(sub, 1): one part when sub does not occur, two parts otherwise
Split1(s, sub) ==
    LET i == Find(s, sub)
    IN  IF i = 0 THEN <<s>>
        ELSE <<Slice(s, 1, i - 1), Slice(s, i + Len(sub), Len(s))>>

\* s.strip()
LStrip(s) ==
    LET keep == {i \in 1..Len(s) : ~IsSpace(s[i])}
    IN  IF keep = {} THEN <<>>
        ELSE Slice(s, CHOOSE i \in keep : \A j \in keep : i <= j, Len(s))

RStrip(s) ==
    LET keep == {i \in 1..Len(s) : ~IsSpace(s[i])}
    IN  IF keep = {} THEN <<>>
        ELSE Slice(s, 1, CHOOSE i \in keep : \A j \in keep : i >= j)

Strip(s) == RStrip(LStrip(s))

\* s.split(None, 1) of a stripped, non-empty s: split at the first run of whitespace
SplitWs1(s) ==
    LET ws == {i \in 1..Len(s) : IsSpace(s[i])}
    IN  IF ws = {} THEN <<s>>
        ELSE LET i == CHOOSE k \in ws : \A j \in ws : k <= j
             IN  <<Slice(s, 1, i - 1), LStrip(Slice(s, i, Len(s)))>>

\* s.split(sub): every part, the empty ones included
RECURSIVE SplitAll(_, _)
SplitAll(s, sub) ==
    LET i == Find(s, sub)
    IN  IF i = 0 THEN <<s>>
        ELSE <<Slice(s, 1, i - 1)>> \o SplitAll(Slice(s, i + Len(sub), Len(s)), sub)

\* s.splitlines(): the text between line breaks; no empty last line
splitlines(s) ==
    IF s = <<>> THEN <<>>
    ELSE LET parts == SplitAll(s, <<NL>>)
         IN  IF parts[Len(parts)] = <<>> THEN Slice(parts, 1, Len(parts) - 1)
             ELSE parts

\* sep.join(parts)
RECURSIVE Join(_, _)
Join(parts, sep) ==
    IF parts = <<>> THEN <<>>
    ELSE IF Len(parts) = 1 THEN parts[1]
    ELSE parts[1] \o sep \o Join(Tail(parts), sep)

(***************************************************************************)
(* Dictionaries: functions from key to value.                              *)
(***************************************************************************)
EmptyDict == [k \in {} |-> <<>>]

\* a store that keeps the value a key already has
DictSet_keep_first(d, k, v) == [x \in DOMAIN d \cup {k} |-> IF x \in DOMAIN d THEN d[x] ELSE v]

DictSet(d, k, v) == [x \in DOMAIN d \cup {k} |-> IF x = k THEN v ELSE d[x]]

(***************************************************************************)
(* parse_params                                                            *)
(***************************************************************************)
\* a comment removal that knows the marker # only
StripComment_hash_only(line) ==
    Strip(IF Find(line, <<"#">>) # 0 THEN Split1(line, <<"#">>)[1] ELSE line)

\* the line with its comments removed and trimmed
StripComment(line) ==
    LET a == IF Find(line, <<"#">>) # 0 THEN Split1(line, <<"#">>)[1] ELSE line
        b == IF Find(a, <<"/", "/">>) # 0 THEN Split1(a, <<"/", "/">>)[1] ELSE a
    IN  Strip(b)

\* a split that tries "," before "="
SplitLine_comma_first(line) ==
    IF Find(line, <<",">>) # 0 THEN Split1(line, <<",">>)
    ELSE IF Find(line, <<"=">>) # 0 THEN Split1(line, <<"=">>)
    ELSE SplitWs1(line)

\* the parts of a stripped, non-empty line: the first of "=", "," that occurs
\* decides, whitespace otherwise
SplitLine(line) ==
    IF Find(line, <<"=">>) # 0 THEN Split1(line, <<"=">>)
    ELSE IF Find(line, <<",">>) # 0 THEN Split1(line, <<",">>)
    ELSE SplitWs1(line)

\* the loop body of parse_params on one line
ParseLine(params, rawline) ==
    LET line == StripComment(rawline)
    IN  IF line = <<>> THEN params
        ELSE LET parts == SplitLine(line)
             IN  IF Len(parts) = 2 /\ Strip(parts[1]) # <<>>
                 THEN DictSet(params, Strip(parts[1]), Strip(parts[2]))
                 ELSE params

RECURSIVE ParseLines(_, _)
ParseLines(params, lines) ==
    IF lines = <<>> THEN params
    ELSE ParseLines(ParseLine(params, Head(lines)), Tail(lines))

parse_params(content) ==
    IF content = <<>> THEN EmptyDict ELSE ParseLines(EmptyDict, splitlines(content))

(***************************************************************************)
(* filter_params: the patterns become one alternation of anchored regular  *)
(* expressions, which is matched at the start of each key.                 *)
(***************************************************************************)
\* fnmatch.translate: "*" any run, "?" any one character, the rest literal,
\* closed by the end anchor \Z
TranslateItem(c) ==
    IF c = "*" THEN [t |-> "star", c |-> ""]
    ELSE IF c = "?" THEN [t |-> "any", c |-> ""]
    ELSE [t |-> "lit", c |-> c]

\* a translation that leaves out the end anchor
fnmatch_translate_unanchored(p) ==
    [items |-> [i \in 1..Len(p) |-> TranslateItem(p[i])], anchored |-> FALSE]

fnmatch_translate(p) ==
    [items |-> [i \in 1..Len(p) |-> TranslateItem(p[i])], anchored |-> TRUE]

\* the lengths of the prefixes of s that the items match
RECURSIVE MatchLens(_, _)
MatchLens(items, s) ==
    IF items = <<>> THEN {0}
    ELSE LET it == Head(items)
         IN  IF it.t = "star"
             THEN UNION {{n + m : m \in MatchLens(Tail(items), Slice(s, n + 1, Len(s)))}
                         : n \in 0..Len(s)}
             ELSE IF s # <<>> /\ (it.t = "any" \/ it.c = s[1])
                  THEN {1 + m : m \in MatchLens(Tail(items), Tail(s))}
                  ELSE {}

\* pattern.match(k) for the alternation of the translated patterns
pattern_match(regexes, k) ==
    \E i \in 1..Len(regexes) :
        \E n \in MatchLens(regexes[i].items, k) : regexes[i].anchored => n = Len(k)

\* a filter that drops nothing
filter_params_keepall(params, patterns) == params

filter_params(params, patterns) ==
    IF patterns = <<>> THEN params
    ELSE LET regexes == [i \in 1..Len(patterns) |-> fnmatch_translate(patterns[i])]
             keep == {k \in DOMAIN params : ~pattern_match(regexes, k)}
         IN  [k \in keep |-> params[k]]

(***************************************************************************)
(* compare_params: the three result maps                                   *)
(***************************************************************************)
\* every key of the current map, present in the reference or not
DiffAdded_allkeys(cur, ref) == [k \in DOMAIN cur |-> cur[k]]

DiffAdded(cur, ref) == [k \in {x \in DOMAIN cur : x \notin DOMAIN ref} |-> cur[k]]

\* every key of the reference map, present in the current one or not
DiffRemoved_allkeys(cur, ref) == [k \in DOMAIN ref |-> ref[k]]

DiffRemoved(cur, ref) == [k \in {x \in DOMAIN ref : x \notin DOMAIN cur} |-> ref[k]]

\* the pair in the order (current, reference)
DiffChanged_swapped(cur, ref) ==
    [k \in {x \in DOMAIN cur : x \in DOMAIN ref /\ cur[x] # ref[x]} |-> <<cur[k], ref[k]>>]

\* every common key, equal values included
DiffChanged_common(cur, ref) ==
    [k \in {x \in DOMAIN cur : x \in DOMAIN ref} |-> <<ref[k], cur[k]>>]

DiffChanged(cur, ref) ==
    [k \in {x \in DOMAIN cur : x \in DOMAIN ref /\ cur[x] # ref[x]} |-> <<ref[k], cur[k]>>]

(***************************************************************************)
(* Inputs of compare_params: texts of whole lines, pattern lists.          *)
(***************************************************************************)
DiffLines ==
    { <<"A", "=", "1">>,
      <<"A", "=", "1", ".", "0">>,
      <<"B", " ", "2">>,
      <<"A", "B", ",", "1", " ", "#", "x">> }

SeqsUpTo(S, n) == UNION {[1..m -> S] : m \in 0..n}

(***************************************************************************)
(* compare_params as a machine: parse both texts, filter both maps, build  *)
(* the result.                                                             *)
(***************************************************************************)
CompareParse ==
    /\ dpc = "start"
    /\ curr_dict' = parse_params(current_content)
    /\ ref_dict' = parse_params(ref_content)
    /\ dpc' = "parsed"
    /\ UNCHANGED <<current_content, ref_content, ignore_patterns, added, removed, changed>>
    /\ UNCHANGED OutsideDiff

CompareFilter ==
    /\ dpc = "parsed"
    /\ curr_dict' = filter_params(curr_dict, ignore_patterns)
    /\ ref_dict' = filter_params(ref_dict, ignore_patterns)
    /\ dpc' = "filtered"
    /\ UNCHANGED <<current_content, ref_content, ignore_patterns, added, removed, changed>>
    /\ UNCHANGED OutsideDiff

CompareDiff ==
    /\ dpc = "filtered"
    /\ added' = DiffAdded(curr_dict, ref_dict)
    /\ removed' = DiffRemoved(curr_dict, ref_dict)
    /\ changed' = DiffChanged(curr_dict, ref_dict)
    /\ dpc' = "done"
    /\ UNCHANGED <<current_content, ref_content, ignore_patterns, curr_dict, ref_dict>>
    /\ UNCHANGED OutsideDiff

DiffNext == CompareParse \/ CompareFilter \/ CompareDiff

DiffIdle ==
    /\ dpc = "idle"
    /\ current_content = <<>>
    /\ ref_content = <<>>
    /\ ignore_patterns = <<>>
    /\ curr_dict = EmptyDict
    /\ ref_dict = EmptyDict
    /\ added = EmptyDict
    /\ removed = EmptyDict
    /\ changed = EmptyDict

(***************************************************************************)
(* Properties of compare_params and filter_params                          *)
(***************************************************************************)
\* the glob p matches the whole key k: "*" stands for any run of characters,
\* "?" for one character, any other character for itself
RECURSIVE GlobMatches(_, _)
GlobMatches(p, k) ==
    IF p = <<>> THEN k = <<>>
    ELSE IF Head(p) = "*"
         THEN \E n \in 0..Len(k) : GlobMatches(Tail(p), Slice(k, n + 1, Len(k)))
         ELSE /\ k # <<>>
              /\ Head(p) = "?" \/ Head(p) = Head(k)
              /\ GlobMatches(Tail(p), Tail(k))

Ignored(k) == \E i \in 1..Len(ignore_patterns) : GlobMatches(ignore_patterns[i], k)

\* C3: added is exactly the keys of the filtered current map that are absent
\* from the filtered reference map, each with the current value; removed is
\* exactly the keys of the filtered reference map absent from the filtered
\* current map, each with the reference value.
C3_AddedRemoved ==
    dpc = "done" =>
        /\ DOMAIN added = DOMAIN curr_dict \ DOMAIN ref_dict
        /\ \A k \in DOMAIN added : added[k] = curr_dict[k]
        /\ DOMAIN removed = DOMAIN ref_dict \ DOMAIN curr_dict
        /\ \A k \in DOMAIN removed : removed[k] = ref_dict[k]

C3_Witness ==
    /\ dpc = "done"
    /\ DOMAIN added # {}
    /\ DOMAIN removed # {}
    /\ DOMAIN curr_dict \cap DOMAIN ref_dict # {}

\* C4: changed is exactly the keys present in both filtered maps whose values
\* are not the identical string, each mapped to (reference value, current
\* value); "1.0" against "1" is reported as changed.
C4_Changed ==
    dpc = "done" =>
        /\ DOMAIN changed =
              {k \in DOMAIN curr_dict \cap DOMAIN ref_dict : curr_dict[k] # ref_dict[k]}
        /\ \A k \in DOMAIN changed : changed[k] = <<ref_dict[k], curr_dict[k]>>

C4_Witness ==
    /\ dpc = "done"
    /\ <<"A">> \in DOMAIN changed
    /\ changed[<<"A">>] = << <<"1">>, <<"1", ".", "0">> >>

\* C5: comparing a text with itself gives empty added, removed and changed,
\* whatever the pattern list.
C5_SelfCompareEmpty ==
    (dpc = "done" /\ current_content = ref_content) =>
        /\ added = EmptyDict
        /\ removed = EmptyDict
        /\ changed = EmptyDict

C5_Witness ==
    /\ dpc = "done"
    /\ current_content = ref_content
    /\ DOMAIN curr_dict # {}
    /\ DOMAIN parse_params(current_content) # DOMAIN curr_dict

\* C6: filter_params drops a key iff some pattern matches the whole key, and
\* keeps every other entry with its value; with an empty list the result has
\* exactly the entries of the input.
C6_FilterExact ==
    dpc = "filtered" =>
        LET cur == parse_params(current_content)
            ref == parse_params(ref_content)
        IN  /\ DOMAIN curr_dict = {k \in DOMAIN cur : ~Ignored(k)}
            /\ \A k \in DOMAIN curr_dict : curr_dict[k] = cur[k]
            /\ DOMAIN ref_dict = {k \in DOMAIN ref : ~Ignored(k)}
            /\ \A k \in DOMAIN ref_dict : ref_dict[k] = ref[k]
            /\ ignore_patterns = <<>> => (curr_dict = cur /\ ref_dict = ref)

\* the pattern "A" drops the key A and keeps the key AB, of which it is a prefix
C6_Witness ==
    /\ dpc = "filtered"
    /\ ignore_patterns = << <<"A">> >>
    /\ <<"A", "B">> \in DOMAIN curr_dict
    /\ <<"A">> \in DOMAIN parse_params(current_content)
    /\ <<"A">> \notin DOMAIN curr_dict

\* C7: no key that some ignore pattern matches in full is in added, removed
\* or changed; two texts whose parsed maps differ only on such keys compare
\* as all-empty.
DiffersOnlyOnIgnored ==
    LET cur == parse_params(current_content)
        ref == parse_params(ref_content)
    IN  \A k \in DOMAIN cur \cup DOMAIN ref :
            ~Ignored(k) => (k \in DOMAIN cur /\ k \in DOMAIN ref /\ cur[k] = ref[k])

C7_IgnoredNeverReported ==
    dpc = "done" =>
        /\ \A k \in DOMAIN added \cup DOMAIN removed \cup DOMAIN changed : ~Ignored(k)
        /\ DiffersOnlyOnIgnored =>
              (added = EmptyDict /\ removed = EmptyDict /\ changed = EmptyDict)

C7_Witness ==
    /\ dpc = "done"
    /\ DiffersOnlyOnIgnored
    /\ parse_params(current_content) # parse_params(ref_content)
    /\ DOMAIN curr_dict # {}

(***************************************************************************)
(* Python objects of the rule evaluator: None, bool, int, float and str.   *)
(* A number is the fraction n/d in lowest terms, d > 0; bool is a kind of  *)
(* int, as in Python.                                                      *)
(***************************************************************************)
RECURSIVE GCD(_, _)
GCD(a, b) == IF b = 0 THEN a ELSE GCD(b, a % b)

Abs(x) == IF x < 0 THEN -x ELSE x

PyNone == [t |-> "none", n |-> 0, d |-> 1, s |-> <<>>]

PyBool(b) == [t |-> "bool", n |-> IF b THEN 1 ELSE 0, d |-> 1, s |-> <<>>]

PyTrue == PyBool(TRUE)

PyFalse == PyBool(FALSE)

PyInt(n) == [t |-> "int", n |-> n, d |-> 1, s |-> <<>>]

PyFloat(n, d) ==
    LET g == GCD(Abs(n), d)
    IN  [t |-> "float", n |-> n \div g, d |-> d \div g, s |-> <<>>]

PyStr(s) == [t |-> "str", n |-> 0, d |-> 1, s |-> s]

IsNum(v) == v.t \in {"bool", "int", "float"}

IsIntLike(v) == v.t \in {"bool", "int"}

\* the result of an arithmetic operator: int when both operands are, else float
PyNumber(a, b, n, d) ==
    IF IsIntLike(a) /\ IsIntLike(b) /\ n % d = 0 THEN PyInt(n \div d) ELSE PyFloat(n, d)

\* character codes, for the ordering of strings
CharOrder ==
    << "\t", "\n", " ", "!", "\"", "#", "$", "%", "&", "'", "(", ")", "*", "+", ",",
       "-", ".", "/", "0", "1", "2", "3", "4", "5", "6", "7", "8", "9", ":", ";",
       "<", "=", ">", "?", "A", "B", "C", "D", "E", "F", "G", "H", "I", "J", "K",
       "L", "M", "N", "O", "P", "Q", "R", "S", "T", "U", "V", "W", "X", "Y", "Z",
       "_", "a", "b", "c", "d", "e", "f", "g", "h", "i", "j", "k", "l", "m", "n",
       "o", "p", "q", "r", "s", "t", "u", "v", "w", "x", "y", "z", "|", "~" >>

Ord(c) == CHOOSE i \in 1..Len(CharOrder) : CharOrder[i] = c

Digits == <<"0", "1", "2", "3", "4", "5", "6", "7", "8", "9">>

IsDigit(c) == \E i \in 1..10 : Digits[i] = c

IsUpper(c) == Ord(c) >= Ord("A") /\ Ord(c) <= Ord("Z")

IsAlpha(c) == IsUpper(c) \/ (Ord(c) >= Ord("a") /\ Ord(c) <= Ord("z")) \/ c = "_"

\* str.lower()
Lower(s) ==
    [i \in 1..Len(s) |->
        IF IsUpper(s[i]) THEN CharOrder[Ord(s[i]) - Ord("A") + Ord("a")] ELSE s[i]]

\* a < b for strings
RECURSIVE StrLess(_, _)
StrLess(a, b) ==
    IF b = <<>> THEN FALSE
    ELSE IF a = <<>> THEN TRUE
    ELSE IF Head(a) = Head(b) THEN StrLess(Tail(a), Tail(b))
    ELSE Ord(Head(a)) < Ord(Head(b))

RECURSIVE Pow10(_)
Pow10(k) == IF k = 0 THEN 1 ELSE 10 * Pow10(k - 1)

RECURSIVE DigitsVal(_)
DigitsVal(s) == IF s = <<>> THEN 0 ELSE 10 * DigitsVal(Slice(s, 1, Len(s) - 1)) + ((CHOOSE i \in 1..10 : Digits[i] = s[Len(s)]) - 1)

AllDigits(s) == \A i \in 1..Len(s) : IsDigit(s[i])

\* an unsigned decimal literal: digits, or digits "." digits with a digit on
\* at least one side
DecimalParts(s) ==
    LET parts == Split1(s, <<".">>)
        ip == parts[1]
        fp == IF Len(parts) = 2 THEN parts[2] ELSE <<>>
    IN  [ok |-> AllDigits(ip) /\ AllDigits(fp) /\ Len(ip) + Len(fp) > 0,
         ip |-> ip, fp |-> fp, dot |-> Len(parts) = 2]

\* float(s) of a stripped string: ok = FALSE stands for ValueError
float(s) ==
    LET neg == s # <<>> /\ s[1] = "-"
        body == IF s # <<>> /\ s[1] \in {"-", "+"} THEN Tail(s) ELSE s
        p == DecimalParts(body)
    IN  IF ~p.ok THEN [ok |-> FALSE, v |-> PyNone]
        ELSE LET m == DigitsVal(p.ip \o p.fp)
             IN  [ok |-> TRUE, v |-> PyFloat(IF neg THEN -m ELSE m, Pow10(Len(p.fp)))]

RECURSIVE NatStr(_)
NatStr(n) == IF n < 10 THEN <<Digits[n + 1]>> ELSE NatStr(n \div 10) \o <<Digits[(n % 10) + 1]>>

\* str(value)
str(v) ==
    CASE v.t = "str" -> v.s
      [] v.t = "none" -> <<"N", "o", "n", "e">>
      [] v.t = "bool" -> IF v.n = 1 THEN <<"T", "r", "u", "e">> ELSE <<"F", "a", "l", "s", "e">>
      [] v.t = "int" -> (IF v.n < 0 THEN <<"-">> ELSE <<>>) \o NatStr(Abs(v.n))
      [] v.t = "float" ->
            LET k == CHOOSE k \in 0..6 :
                         Pow10(k) % v.d = 0 /\ \A j \in 0..(k - 1) : Pow10(j) % v.d # 0
                a == Abs(v.n)
                digits == NatStr(((a % v.d) * Pow10(k)) \div v.d)
                frac == IF k = 0 THEN <<"0">>
                        ELSE [i \in 1..(k - Len(digits)) |-> "0"] \o digits
            IN  (IF v.n < 0 THEN <<"-">> ELSE <<>>) \o NatStr(a \div v.d) \o <<".">> \o frac

(***************************************************************************)
(* SAFE_OPERATORS: the operator functions of the operator module, applied  *)
(* to Python objects.  A result is [exc, v]: exc names the exception       *)
(* raised, "" when none.                                                   *)
(***************************************************************************)
Ok(v) == [exc |-> "", v |-> v]

Raise(e) == [exc |-> e, v |-> PyNone]

SAFE_OPERATORS ==
    {"Add", "Sub", "Mult", "Div", "Mod", "Pow", "USub", "UAdd",
     "Gt", "Lt", "GtE", "LtE", "Eq", "NotEq"}

RECURSIVE StrRepeat(_, _)
StrRepeat(s, k) == IF k <= 0 THEN <<>> ELSE s \o StrRepeat(s, k - 1)

RECURSIVE IntPow(_, _)
IntPow(b, e) == IF e = 0 THEN 1 ELSE b * IntPow(b, e - 1)

\* a == b
PyEq(a, b) ==
    IF IsNum(a) /\ IsNum(b) THEN a.n * b.d = b.n * a.d
    ELSE IF a.t = "str" /\ b.t = "str" THEN a.s = b.s
    ELSE a.t = "none" /\ b.t = "none"

\* a < b, for operands that can be ordered
PyLess(a, b) == IF IsNum(a) THEN a.n * b.d < b.n * a.d ELSE StrLess(a.s, b.s)

Orderable(a, b) == (IsNum(a) /\ IsNum(b)) \/ (a.t = "str" /\ b.t = "str")

ApplyBinary(op, a, b) ==
    CASE op = "Add" ->
            IF IsNum(a) /\ IsNum(b) THEN Ok(PyNumber(a, b, a.n * b.d + b.n * a.d, a.d * b.d))
            ELSE IF a.t = "str" /\ b.t = "str" THEN Ok(PyStr(a.s \o b.s))
            ELSE Raise("TypeError")
      [] op = "Sub" ->
            IF IsNum(a) /\ IsNum(b) THEN Ok(PyNumber(a, b, a.n * b.d - b.n * a.d, a.d * b.d))
            ELSE Raise("TypeError")
      [] op = "Mult" ->
            IF IsNum(a) /\ IsNum(b) THEN Ok(PyNumber(a, b, a.n * b.n, a.d * b.d))
            ELSE IF a.t = "str" /\ IsIntLike(b) THEN Ok(PyStr(StrRepeat(a.s, b.n)))
            ELSE IF IsIntLike(a) /\ b.t = "str" THEN Ok(PyStr(StrRepeat(b.s, a.n)))
            ELSE Raise("TypeError")
      [] op = "Div" ->
            IF ~(IsNum(a) /\ IsNum(b)) THEN Raise("TypeError")
            ELSE IF b.n = 0 THEN Raise("ZeroDivisionError")
            ELSE Ok(PyFloat((IF b.n < 0 THEN -1 ELSE 1) * a.n * b.d, a.d * Abs(b.n)))
      [] op = "Mod" ->
            \* str % x is string formatting: with no conversion in the text it
            \* raises TypeError for every x modelled here
            IF ~(IsNum(a) /\ IsNum(b)) THEN Raise("TypeError")
            ELSE IF b.n = 0 THEN Raise("ZeroDivisionError")
            ELSE LET n == (IF b.n < 0 THEN -1 ELSE 1) * a.n * b.d
                     d == a.d * Abs(b.n)
                     \* the floor of the fraction n/d, d > 0
                     q == IF n >= 0 \/ n % d = 0 THEN n \div d ELSE -((-n) \div d) - 1
                 IN  Ok(PyNumber(a, b, a.n * b.d - q * b.n * a.d, a.d * b.d))
      [] op = "Pow" ->
            \* integer exponents only: the checked rules have no other
            IF ~(IsNum(a) /\ IsNum(b)) THEN Raise("TypeError")
            ELSE IF b.n < 0 /\ a.n = 0 THEN Raise("ZeroDivisionError")
            ELSE IF b.n < 0
                 THEN Ok(PyFloat((IF a.n < 0 /\ (-b.n) % 2 = 1 THEN -1 ELSE 1) * IntPow(a.d, -b.n),
                                 IntPow(Abs(a.n), -b.n)))
                 ELSE Ok(PyNumber(a, b, IntPow(a.n, b.n), IntPow(a.d, b.n)))
      [] op = "Gt" -> IF Orderable(a, b) THEN Ok(PyBool(PyLess(b, a))) ELSE Raise("TypeError")
      [] op = "Lt" -> IF Orderable(a, b) THEN Ok(PyBool(PyLess(a, b))) ELSE Raise("TypeError")
      [] op = "GtE" -> IF Orderable(a, b) THEN Ok(PyBool(~PyLess(a, b))) ELSE Raise("TypeError")
      [] op = "LtE" -> IF Orderable(a, b) THEN Ok(PyBool(~PyLess(b, a))) ELSE Raise("TypeError")
      [] op = "Eq" -> Ok(PyBool(PyEq(a, b)))
      [] op = "NotEq" -> Ok(PyBool(~PyEq(a, b)))

ApplyUnary(op, a) ==
    IF ~IsNum(a) THEN Raise("TypeError")
    ELSE IF op = "USub" THEN Ok(PyNumber(a, a, -a.n, a.d))
    ELSE Ok(PyNumber(a, a, a.n, a.d))

\* a truth test that takes every object but None for true
Truthy_unless_none(v) == v.t # "none"

\* bool(v)
Truthy(v) ==
    CASE v.t = "none" -> FALSE
      [] v.t = "str" -> v.s # <<>>
      [] OTHER -> v.n # 0

(***************************************************************************)
(* ast.parse(expr, mode='eval'), first part: the tokens of an expression.  *)
(* A token is [k, s, v]: k its kind (name, num, str, op), s its text, v    *)
(* the value of a literal.                                                 *)
(***************************************************************************)
Tok(k, s, v) == [k |-> k, s |-> s, v |-> v]

\* the length of the longest prefix of s whose characters satisfy Test
PrefixLen(s, Test(_)) ==
    LET stops == {i \in 1..Len(s) : ~Test(s[i])}
    IN  IF stops = {} THEN Len(s) ELSE (CHOOSE i \in stops : \A j \in stops : i <= j) - 1

\* a number literal: int without a dot (no leading zeros), float with one
NumberToken(lit) ==
    LET p == DecimalParts(lit)
        m == DigitsVal(p.ip \o p.fp)
    IN  IF ~p.ok THEN [ok |-> FALSE, tok |-> Tok("num", lit, PyNone)]
        ELSE IF p.dot THEN [ok |-> TRUE, tok |-> Tok("num", lit, PyFloat(m, Pow10(Len(p.fp))))]
        ELSE IF Len(lit) > 1 /\ lit[1] = "0" /\ m # 0
             THEN [ok |-> FALSE, tok |-> Tok("num", lit, PyNone)]
        ELSE [ok |-> TRUE, tok |-> Tok("num", lit, PyInt(m))]

\* [ok, toks]: ok = FALSE stands for the SyntaxError of the tokenizer
RECURSIVE Tokenize(_)
Tokenize(s) ==
    IF s = <<>> \/ s[1] = "#" THEN [ok |-> TRUE, toks |-> <<>>]
    ELSE IF IsSpace(s[1]) THEN Tokenize(Tail(s))
    ELSE IF IsAlpha(s[1]) THEN
        LET n == PrefixLen(s, LAMBDA c : IsAlpha(c) \/ IsDigit(c))
            rest == Tokenize(Slice(s, n + 1, Len(s)))
        IN  [ok |-> rest.ok, toks |-> <<Tok("name", Slice(s, 1, n), PyNone)>> \o rest.toks]
    ELSE IF IsDigit(s[1]) \/ (s[1] = "." /\ Len(s) > 1 /\ IsDigit(s[2])) THEN
        LET n == PrefixLen(s, LAMBDA c : IsDigit(c) \/ c = ".")
            num == NumberToken(Slice(s, 1, n))
            rest == Tokenize(Slice(s, n + 1, Len(s)))
        IN  IF ~num.ok \/ (n < Len(s) /\ IsAlpha(s[n + 1])) THEN [ok |-> FALSE, toks |-> <<>>]
            ELSE [ok |-> rest.ok, toks |-> <<num.tok>> \o rest.toks]
    ELSE IF s[1] \in {"\"", "'"} THEN
        LET close == Find(Tail(s), <<s[1]>>)
            rest == Tokenize(Slice(s, close + 2, Len(s)))
        IN  IF close = 0 THEN [ok |-> FALSE, toks |-> <<>>]
            ELSE [ok |-> rest.ok,
                  toks |-> <<Tok("str", <<>>, PyStr(Slice(s, 2, close)))>> \o rest.toks]
    ELSE IF Len(s) > 1 /\ Slice(s, 1, 2) \in
            { <<"=", "=">>, <<"!", "=">>, <<">", "=">>, <<"<", "=">>, <<"*", "*">>, <<"/", "/">> } THEN
        LET rest == Tokenize(Slice(s, 3, Len(s)))
        IN  [ok |-> rest.ok, toks |-> <<Tok("op", Slice(s, 1, 2), PyNone)>> \o rest.toks]
    ELSE IF s[1] \in
            {">", "<", "+", "-", "*", "/", "%", "(", ")", ".", "&", "|", "~", "="} THEN
        LET rest == Tokenize(Tail(s))
        IN  [ok |-> rest.ok, toks |-> <<Tok("op", <<s[1]>>, PyNone)>> \o rest.toks]
    ELSE [ok |-> FALSE, toks |-> <<>>]

(***************************************************************************)
(* ast.parse, second part: the expression grammar of Python by precedence  *)
(* (or, and, not, comparison, |, &, + -, * / % //, unary, **, primary,     *)
(* atom).  A result is [ok, ast, rest]; ok = FALSE stands for SyntaxError. *)
(***************************************************************************)
NoNode == [node |-> "None"]

Fail == [ok |-> FALSE, ast |-> NoNode, rest |-> <<>>]

Good(ast, rest) == [ok |-> TRUE, ast |-> ast, rest |-> rest]

Constant(v) == [node |-> "Constant", value |-> v]

BinOp(op, l, r) == [node |-> "BinOp", op |-> op, left |-> l, right |-> r]

UnaryOp(op, x) == [node |-> "UnaryOp", op |-> op, operand |-> x]

IsOp(toks, texts) == toks # <<>> /\ toks[1].k = "op" /\ toks[1].s \in texts

IsKw(toks, word) == toks # <<>> /\ toks[1].k = "name" /\ toks[1].s = word

kw == [
    not |-> <<"n", "o", "t">>,
    and |-> <<"a", "n", "d">>,
    or |-> <<"o", "r">>,
    in |-> <<"i", "n">>,
    is |-> <<"i", "s">>,
    True |-> <<"T", "r", "u", "e">>,
    False |-> <<"F", "a", "l", "s", "e">>,
    None |-> <<"N", "o", "n", "e">>,
    required |-> <<"r", "e", "q", "u", "i", "r", "e", "d">>,
    checked |-> <<"c", "h", "e", "c", "k", "e", "d">>,
    unchecked |-> <<"u", "n", "c", "h", "e", "c", "k", "e", "d">>,
    value |-> <<"v", "a", "l", "u", "e">>
]

Keywords == {kw.not, kw.and, kw.or, kw.in, kw.is}

BinOpName(text) ==
    CASE text = <<"+">> -> "Add"
      [] text = <<"-">> -> "Sub"
      [] text = <<"*">> -> "Mult"
      [] text = <<"/">> -> "Div"
      [] text = <<"%">> -> "Mod"
      [] text = <<"/", "/">> -> "FloorDiv"
      [] text = <<"*", "*">> -> "Pow"
      [] text = <<"|">> -> "BitOr"
      [] text = <<"&">> -> "BitAnd"

\* the comparison operator at the head of toks: [n, op], n tokens long (0: none)
CmpOpAt(toks) ==
    LET CmpOpName(text) ==
            CASE text = <<">">> -> "Gt"
              [] text = <<"<">> -> "Lt"
              [] text = <<">", "=">> -> "GtE"
              [] text = <<"<", "=">> -> "LtE"
              [] text = <<"=", "=">> -> "Eq"
              [] text = <<"!", "=">> -> "NotEq"
        CmpOpTexts == { <<">">>, <<"<">>, <<">", "=">>, <<"<", "=">>, <<"=", "=">>, <<"!", "=">> }
    IN
    IF IsOp(toks, CmpOpTexts) THEN [n |-> 1, op |-> CmpOpName(toks[1].s)]
    ELSE IF IsKw(toks, kw.in) THEN [n |-> 1, op |-> "In"]
    ELSE IF IsKw(toks, kw.not) /\ IsKw(Tail(toks), kw.in) THEN [n |-> 2, op |-> "NotIn"]
    ELSE IF IsKw(toks, kw.is) /\ IsKw(Tail(toks), kw.not) THEN [n |-> 2, op |-> "IsNot"]
    ELSE IF IsKw(toks, kw.is) THEN [n |-> 1, op |-> "Is"]
    ELSE [n |-> 0, op |-> ""]

\* the binary levels, lowest precedence first, with the level of their operands
Operand(lvl) ==
    CASE lvl = "or" -> "and"
      [] lvl = "and" -> "not"
      [] lvl = "cmp" -> "bitor"
      [] lvl = "bitor" -> "bitand"
      [] lvl = "bitand" -> "sum"
      [] lvl = "sum" -> "term"
      [] lvl = "term" -> "factor"

\* toks starts with an operator of the binary level lvl
AtLevelOp(lvl, toks) ==
    CASE lvl = "or" -> IsKw(toks, kw.or)
      [] lvl = "and" -> IsKw(toks, kw.and)
      [] lvl = "bitor" -> IsOp(toks, {<<"|">>})
      [] lvl = "bitand" -> IsOp(toks, {<<"&">>})
      [] lvl = "sum" -> IsOp(toks, {<<"+">>, <<"-">>})
      [] lvl = "term" -> IsOp(toks, {<<"*">>, <<"/">>, <<"%">>, <<"/", "/">>})

LevelNode(lvl, tok, l, r) ==
    IF lvl = "or" THEN [node |-> "BoolOp", op |-> "Or", values |-> <<l, r>>]
    ELSE IF lvl = "and" THEN [node |-> "BoolOp", op |-> "And", values |-> <<l, r>>]
    ELSE BinOp(BinOpName(tok.s), l, r)

\* adjacent string literals are one constant
RECURSIVE StrRest(_, _)
StrRest(text, toks) ==
    IF toks # <<>> /\ toks[1].k = "str" THEN StrRest(text \o toks[1].v.s, Tail(toks))
    ELSE Good(Constant(PyStr(text)), toks)

\* Parse(lvl, toks): an expression of precedence level lvl at the head of toks.
\* ParseRest(lvl, left, ops, comparators, toks): the operators that follow the
\* operand left at that level (ops, comparators: the comparison chain so far).
RECURSIVE Parse(_, _), ParseRest(_, _, _, _, _)

Parse(lvl, toks) ==
    CASE lvl \in {"or", "and", "cmp", "bitor", "bitand", "sum", "term"} ->
            LET l == Parse(Operand(lvl), toks)
            IN  IF l.ok THEN ParseRest(lvl, l.ast, <<>>, <<>>, l.rest) ELSE Fail
      [] lvl = "not" ->
            IF IsKw(toks, kw.not)
            THEN LET r == Parse("not", Tail(toks))
                 IN  IF r.ok THEN Good(UnaryOp("Not", r.ast), r.rest) ELSE Fail
            ELSE Parse("cmp", toks)
      [] lvl = "factor" ->
            IF IsOp(toks, {<<"+">>, <<"-">>, <<"~">>})
            THEN LET r == Parse("factor", Tail(toks))
                     op == IF toks[1].s = <<"+">> THEN "UAdd"
                           ELSE IF toks[1].s = <<"-">> THEN "USub" ELSE "Invert"
                 IN  IF r.ok THEN Good(UnaryOp(op, r.ast), r.rest) ELSE Fail
            ELSE Parse("power", toks)
      [] lvl = "power" ->
            LET l == Parse("primary", toks)
            IN  IF ~l.ok THEN Fail
                ELSE IF IsOp(l.rest, {<<"*", "*">>})
                THEN LET r == Parse("factor", Tail(l.rest))
                     IN  IF r.ok THEN Good(BinOp("Pow", l.ast, r.ast), r.rest) ELSE Fail
                ELSE l
      [] lvl = "primary" ->
            LET a == Parse("atom", toks)
            IN  IF a.ok THEN ParseRest("primary", a.ast, <<>>, <<>>, a.rest) ELSE Fail
      [] lvl = "atom" ->
            IF toks = <<>> THEN Fail
            ELSE LET t == toks[1]
                 IN  CASE t.k = "num" -> Good(Constant(t.v), Tail(toks))
                       [] t.k = "str" -> StrRest(<<>>, toks)
                       [] t.k = "name" ->
                             IF t.s = kw.True THEN Good(Constant(PyTrue), Tail(toks))
                             ELSE IF t.s = kw.False THEN Good(Constant(PyFalse), Tail(toks))
                             ELSE IF t.s = kw.None THEN Good(Constant(PyNone), Tail(toks))
                             ELSE IF t.s \in Keywords THEN Fail
                             ELSE Good([node |-> "Name", id |-> t.s], Tail(toks))
                       [] OTHER ->
                             IF ~IsOp(toks, {<<"(">>}) THEN Fail
                             ELSE IF IsOp(Tail(toks), {<<")">>})
                             THEN Good([node |-> "Tuple"], Slice(toks, 3, Len(toks)))
                             ELSE LET e == Parse("or", Tail(toks))
                                  IN  IF e.ok /\ IsOp(e.rest, {<<")">>})
                                      THEN Good(e.ast, Tail(e.rest))
                                      ELSE Fail

ParseRest(lvl, left, ops, comparators, toks) ==
    CASE lvl = "cmp" ->
            LET c == CmpOpAt(toks)
            IN  IF c.n = 0
                THEN IF ops = <<>> THEN Good(left, toks)
                     ELSE Good([node |-> "Compare", left |-> left, ops |-> ops,
                                comparators |-> comparators], toks)
                ELSE LET r == Parse("bitor", Slice(toks, c.n + 1, Len(toks)))
                     IN  IF r.ok
                         THEN ParseRest("cmp", left, Append(ops, c.op),
                                        Append(comparators, r.ast), r.rest)
                         ELSE Fail
      [] lvl = "primary" ->
            \* attribute access and calls (a call's arguments hold no comma:
            \* the rule string was split at every comma before)
            IF IsOp(toks, {<<".">>})
            THEN IF Len(toks) > 1 /\ toks[2].k = "name" /\ toks[2].s \notin Keywords
                 THEN ParseRest("primary", [node |-> "Attribute", value |-> left], <<>>, <<>>,
                                Slice(toks, 3, Len(toks)))
                 ELSE Fail
            ELSE IF IsOp(toks, {<<"(">>})
            THEN IF IsOp(Tail(toks), {<<")">>})
                 THEN ParseRest("primary", [node |-> "Call", func |-> left], <<>>, <<>>,
                                Slice(toks, 3, Len(toks)))
                 ELSE LET arg == Parse("or", Tail(toks))
                      IN  IF arg.ok /\ IsOp(arg.rest, {<<")">>})
                          THEN ParseRest("primary", [node |-> "Call", func |-> left], <<>>, <<>>,
                                         Tail(arg.rest))
                          ELSE Fail
            ELSE Good(left, toks)
      [] OTHER ->
            IF AtLevelOp(lvl, toks)
            THEN LET r == Parse(Operand(lvl), Tail(toks))
                 IN  IF r.ok
                     THEN ParseRest(lvl, LevelNode(lvl, toks[1], left, r.ast), <<>>, <<>>, r.rest)
                     ELSE Fail
            ELSE Good(left, toks)

\* the tree of a tokenizer result t: [ok, ast]; the tree is an Expression node
ParseTokens(t) ==
    LET e == IF t.ok THEN Parse("or", t.toks) ELSE Fail
    IN  IF e.ok /\ e.rest = <<>> THEN [ok |-> TRUE, ast |-> [node |-> "Expression", body |-> e.ast]]
        ELSE [ok |-> FALSE, ast |-> NoNode]

\* ast.parse(expr, mode='eval')
ast_parse(expr) == ParseTokens(Tokenize(expr))

(***************************************************************************)
(* _safe_eval                                                              *)
(***************************************************************************)
RECURSIVE _safe_eval(_, _), CompareLoop(_, _, _, _)

\* a Compare branch that evaluates every comparator before it compares
CompareLoop_eager(left, ops, comparators, variables) ==
    LET n == Len(ops)
        vals == [i \in 1..n |-> _safe_eval(comparators[i], variables)]
        bad == {i \in 1..n : vals[i].exc # ""}
    IN  IF bad # {} THEN vals[CHOOSE i \in bad : \A j \in bad : i <= j]
        ELSE IF \E i \in 1..n : ops[i] \notin SAFE_OPERATORS THEN Raise("KeyError")
        ELSE LET rs == [i \in 1..n |->
                           ApplyBinary(ops[i], IF i = 1 THEN left ELSE vals[i - 1].v, vals[i].v)]
                 err == {i \in 1..n : rs[i].exc # ""}
             IN  IF err # {} THEN rs[CHOOSE i \in err : \A j \in err : i <= j]
                 ELSE Ok(PyBool(\A i \in 1..n : Truthy(rs[i].v)))

\* the loop of the Compare branch: left against each comparator in turn
CompareLoop(left, ops, comparators, variables) ==
    IF ops = <<>> THEN Ok(PyTrue)
    ELSE LET right == _safe_eval(Head(comparators), variables)
         IN  IF right.exc # "" THEN right
             ELSE IF Head(ops) \notin SAFE_OPERATORS THEN Raise("KeyError")
             ELSE LET r == ApplyBinary(Head(ops), left, right.v)
                  IN  IF r.exc # "" THEN r
                      ELSE IF ~Truthy(r.v) THEN Ok(PyFalse)
                      ELSE CompareLoop(right.v, Tail(ops), Tail(comparators), variables)

_safe_eval(node, variables) ==
    CASE node.node = "Constant" -> Ok(node.value)
      [] node.node = "BinOp" ->
            IF node.op \notin SAFE_OPERATORS THEN Raise("KeyError")
            ELSE LET l == _safe_eval(node.left, variables)
                 IN  IF l.exc # "" THEN l
                     ELSE LET r == _safe_eval(node.right, variables)
                          IN  IF r.exc # "" THEN r ELSE ApplyBinary(node.op, l.v, r.v)
      [] node.node = "UnaryOp" ->
            IF node.op \notin SAFE_OPERATORS THEN Raise("KeyError")
            ELSE LET x == _safe_eval(node.operand, variables)
                 IN  IF x.exc # "" THEN x ELSE ApplyUnary(node.op, x.v)
      [] node.node = "Compare" ->
            LET l == _safe_eval(node.left, variables)
            IN  IF l.exc # "" THEN l
                ELSE CompareLoop(l.v, node.ops, node.comparators, variables)
      [] node.node = "Name" ->
            IF node.id \in DOMAIN variables THEN Ok(variables[node.id])
            ELSE Raise("ValueError")
      [] node.node = "Expression" -> _safe_eval(node.body, variables)
      [] OTHER -> Raise("TypeError")

(***************************************************************************)
(* validate_checklist_rule                                                 *)
(***************************************************************************)
\* a message: its fixed text, the sub-rule it quotes, the exception it quotes
Msg(text, rule, exc) == [text |-> text, rule |-> rule, exc |-> exc]

NoMsg == Msg("", <<>>, "")

\* a handler that names two classes only
CaughtByHandler_narrow(exc) == exc \in {"ValueError", "TypeError"}

\* except Exception: every exception class the evaluation can raise derives
\* from Exception
CaughtByHandler(exc) ==
    exc \in {"SyntaxError", "TypeError", "KeyError", "ValueError", "ZeroDivisionError"}

\* a normalisation that takes a boolean for an empty answer
NormStr_bool_empty(v) == IF v.t \in {"none", "bool"} THEN <<>> ELSE Strip(str(v))

\* val_str, eval_value and val_bool of a value
NormStr(v) == IF v.t = "none" THEN <<>> ELSE Strip(str(v))

\* a normalisation that keeps a text answer as text
NormEval_keep_text(v) == IF v.t = "bool" THEN v ELSE PyStr(NormStr(v))

NormEval(v) ==
    IF v.t = "bool" THEN v
    ELSE LET f == float(NormStr(v)) IN IF f.ok THEN f.v ELSE PyStr(NormStr(v))

\* a coercion that compares the text with "true" as it is spelled
NormBool_case_sensitive(v) ==
    IF v.t = "bool" THEN v.n = 1 ELSE NormStr(v) = <<"t", "r", "u", "e">>

NormBool(v) == IF v.t = "bool" THEN v.n = 1 ELSE Lower(NormStr(v)) = <<"t", "r", "u", "e">>

Context(ev) ==
    [k \in {kw.value, kw.True, kw.False, kw.None} |->
        IF k = kw.value THEN ev
        ELSE IF k = kw.True THEN PyTrue
        ELSE IF k = kw.False THEN PyFalse
        ELSE PyNone]

\* rules = [r.strip() for r in rule_str.split(",")]
SplitRules(rs) == LET parts == SplitAll(rs, <<",">>) IN [i \in 1..Len(parts) |-> Strip(parts[i])]

\* a shorthand test that does not know the character !
StartsWithOperator_no_bang(expr) ==
    LET e == Strip(expr) IN e # <<>> /\ e[1] \in {">", "<", "="}

\* expr.strip().startswith((">", "<", "=", "!"))
StartsWithOperator(expr) ==
    LET e == Strip(expr) IN e # <<>> /\ e[1] \in {">", "<", "=", "!"}

\* the expression that is parsed for a sub-rule
Expand(rule) == IF StartsWithOperator(rule) THEN kw.value \o <<" ">> \o rule ELSE rule

\* the try block after ast.parse: [exc, v] of evaluating the parsed sub-rule
TryEvaluate(parsed, context) ==
    IF ~parsed.ok THEN Raise("SyntaxError") ELSE _safe_eval(parsed.ast, context)

\* one pass of the loop body on a non-empty sub-rule: [pass, msg, raised].
\* pass: the loop goes on; raised: the exception that leaves the function
Outcome(pass, msg, exc) == [pass |-> pass, msg |-> msg, raised |-> exc]

KeywordOutcome(rule, vs, vb) ==
    CASE Lower(rule) = kw.required ->
            IF vs = <<>> THEN Outcome(FALSE, Msg("Required", <<>>, ""), "")
            ELSE Outcome(TRUE, NoMsg, "")
      [] Lower(rule) = kw.checked ->
            IF ~vb THEN Outcome(FALSE, Msg("Must be checked", <<>>, ""), "")
            ELSE Outcome(TRUE, NoMsg, "")
      [] Lower(rule) = kw.unchecked ->
            IF vb THEN Outcome(FALSE, Msg("Must be unchecked", <<>>, ""), "")
            ELSE Outcome(TRUE, NoMsg, "")

ExpressionOutcome(rule, parsed, context) ==
    LET r == TryEvaluate(parsed, context)
    IN  IF r.exc # ""
        THEN IF CaughtByHandler(r.exc)
             THEN Outcome(FALSE, Msg("Error processing rule", rule, r.exc), "")
             ELSE Outcome(FALSE, NoMsg, r.exc)
        ELSE IF ~Truthy(r.v) THEN Outcome(FALSE, Msg("Condition failed", rule, ""), "")
        ELSE Outcome(TRUE, NoMsg, "")

IsKeywordRule(rule) == Lower(rule) \in {kw.required, kw.checked, kw.unchecked}

(***************************************************************************)
(* Inputs of validate_checklist_rule: answers of the checklist, and rule   *)
(* strings made of sub-rules joined by commas.                             *)
(***************************************************************************)
V == [
    abc |-> PyStr(<<"a", "b", "c">>),
    fifteen |-> PyStr(<<"1", "5">>),
    five |-> PyStr(<<"5">>),
    zero |-> PyStr(<<"0">>),
    true_mixed |-> PyStr(<<"T", "r", "u", "e">>),
    true_padded |-> PyStr(<<" ", "t", "R", "U", "E">>),
    a_comma_b |-> PyStr(<<"a", ",", "b">>),
    space |-> PyStr(<<" ">>),
    empty |-> PyStr(<<>>),
    float |-> PyFloat(15, 2)
]

R == [
    required |-> <<"r", "e", "q", "u", "i", "r", "e", "d">>,   \* required
    ReQuIrEd |-> <<"R", "e", "Q", "u", "I", "r", "E", "d">>,   \* ReQuIrEd
    Checked |-> <<"C", "h", "e", "c", "k", "e", "d">>,   \* Checked
    UNCHECKED |-> <<"U", "N", "C", "H", "E", "C", "K", "E", "D">>,   \* UNCHECKED
    gt |-> <<">", " ", "1", "0">>,   \* > 10
    lt |-> <<"<", " ", "1", "0">>,   \* < 10
    ge |-> <<">", "=", " ", "1", "0">>,   \* >= 10
    le |-> <<"<", "=", "1", "0">>,   \* <=10
    eq |-> <<"=", "=", " ", "1", "0">>,   \* == 10
    ne |-> <<"!", "=", " ", "1", "0">>,   \* != 10
    vgt |-> <<"v", "a", "l", "u", "e", " ", ">", " ", "1", "0">>,   \* value > 10
    half |-> <<"v", "a", "l", "u", "e", "/", "2", " ", ">", " ", "3", ".", "9">>,   \* value/2 > 3.9
    minus |-> <<"v", "a", "l", "u", "e", " ", "-", " ", "5">>,   \* value - 5
    value |-> <<"v", "a", "l", "u", "e">>,   \* value
    quote_a |-> <<"v", "a", "l", "u", "e", " ", "=", "=", " ", "\"", "a">>,   \* value == "a
    eq_abc |-> <<"=", "=", " ", "'", "a", "b", "c", "'">>,   \* == 'abc'
    lt_b |-> <<"<", " ", "\"", "b", "\"">>,   \* < "b"
    call |-> <<"f", "o", "o", "(", ")">>,   \* foo()
    attr |-> <<"v", "a", "l", "u", "e", ".", "r", "e", "a", "l">>,   \* value.real
    name |-> <<"x", " ", ">", " ", "1">>,   \* x > 1
    and |-> <<"v", "a", "l", "u", "e", " ", ">", " ", "1", " ", "a", "n", "d", " ", "v", "a", "l", "u", "e", " ", "<", " ", "9">>,   \* value > 1 and value < 9
    not |-> <<"n", "o", "t", " ", "v", "a", "l", "u", "e">>,   \* not value
    bitor |-> <<"v", "a", "l", "u", "e", " ", "|", " ", "1">>,   \* value | 1
    floordiv |-> <<"v", "a", "l", "u", "e", " ", "/", "/", " ", "2">>,   \* value // 2
    is_none |-> <<"v", "a", "l", "u", "e", " ", "i", "s", " ", "N", "o", "n", "e">>,   \* value is None
    chain |-> <<"0", " ", "<", " ", "v", "a", "l", "u", "e", " ", "<", " ", "1", "0">>,   \* 0 < value < 10
    chain_call |-> <<"v", "a", "l", "u", "e", " ", ">", " ", "1", "0", " ", ">", " ", "f", "o", "o", "(", ")">>,   \* value > 10 > foo()
    div0 |-> <<"v", "a", "l", "u", "e", " ", "/", " ", "0">>,   \* value / 0
    dangling |-> <<"v", "a", "l", "u", "e", " ", ">">>,   \* value >
    assign |-> <<"=", " ", "5">>,   \* = 5
    blank |-> <<" ">>,   \* (1 characters of white space)
    neg |-> <<"-", "v", "a", "l", "u", "e", " ", "<", " ", "0">>,   \* -value < 0
    b_quote |-> <<"b", "\"">>,   \* b"
    empty |-> <<>>   \* (0 characters of white space)
]

RuleStrings ==
    LET FirstRules ==
            {R.required, R.ReQuIrEd, R.Checked, R.UNCHECKED, R.gt, R.lt, R.ge, R.le,
             R.eq, R.ne, R.vgt, R.half, R.minus, R.value, R.quote_a, R.eq_abc,
             R.lt_b, R.call, R.attr, R.name, R.and, R.not, R.bitor, R.floordiv,
             R.is_none, R.chain, R.chain_call, R.div0, R.dangling, R.assign, R.blank,
             R.neg}
        TailRules == {R.b_quote, R.required, R.gt, R.call, R.empty}
        RuleSeqs == {rs \in SeqsUpTo(FirstRules \cup TailRules, MaxRules) :
                        /\ rs # <<>> => rs[1] \in FirstRules
                        /\ \A i \in 2..Len(rs) : rs[i] \in TailRules}
    IN  {Join(rs, <<",">>) : rs \in RuleSeqs}

(***************************************************************************)
(* validate_checklist_rule as a machine: the normalisation, then one step  *)
(* of the loop per sub-rule.                                               *)
(***************************************************************************)
NoTokens == [ok |-> FALSE, toks |-> <<>>]

NoTree == [ok |-> FALSE, ast |-> NoNode]

RuleIdle ==
    /\ vpc = "idle"
    /\ value = PyNone
    /\ rule_str = <<>>
    /\ val_str = <<>>
    /\ eval_value = PyNone
    /\ val_bool = FALSE
    /\ rules = <<>>
    /\ ri = 0
    /\ tokens = NoTokens
    /\ tree = NoTree
    /\ result = [valid |-> FALSE, msg |-> NoMsg]
    /\ raised = ""
    /\ evaluated = <<>>

Return(valid, msg) ==
    /\ result' = [valid |-> valid, msg |-> msg]
    /\ vpc' = "done"

\* if not rule_str: return True, ""
ValidateNoRule ==
    /\ vpc = "start"
    /\ rule_str = <<>>
    /\ Return(TRUE, NoMsg)
    /\ UNCHANGED <<value, rule_str, val_str, eval_value, val_bool, rules, ri, tokens, tree,
                   raised, evaluated>>
    /\ UNCHANGED OutsideRule

ValidateNormalize ==
    /\ vpc = "start"
    /\ rule_str # <<>>
    /\ val_str' = NormStr(value)
    /\ eval_value' = NormEval(value)
    /\ val_bool' = NormBool(value)
    /\ rules' = SplitRules(rule_str)
    /\ ri' = 1
    /\ vpc' = "loop"
    /\ UNCHANGED <<value, rule_str, tokens, tree, result, raised, evaluated>>
    /\ UNCHANGED OutsideRule

\* if not rule: continue
RuleBlank ==
    /\ vpc = "loop"
    /\ ri <= Len(rules)
    /\ rules[ri] = <<>>
    /\ ri' = ri + 1
    /\ UNCHANGED <<vpc, value, rule_str, val_str, eval_value, val_bool, rules, tokens, tree,
                   result, raised, evaluated>>
    /\ UNCHANGED OutsideRule

\* a loop body that notes a failure and goes on to the next sub-rule
RuleStep_no_return(o) ==
    /\ evaluated' = Append(evaluated, ri)
    /\ ri' = ri + 1
    /\ vpc' = "loop"
    /\ result' = IF o.pass THEN result ELSE [valid |-> FALSE, msg |-> o.msg]
    /\ UNCHANGED <<raised, value, rule_str, val_str, eval_value, val_bool, rules, tokens, tree>>

\* the rest of the loop body, given what the sub-rule came to
RuleStep(o) ==
    /\ evaluated' = Append(evaluated, ri)
    /\ IF o.pass
       THEN /\ ri' = ri + 1
            /\ vpc' = "loop"
            /\ UNCHANGED <<result, raised>>
       ELSE IF o.raised # ""
       THEN /\ raised' = o.raised
            /\ vpc' = "done"
            /\ UNCHANGED <<ri, result>>
       ELSE /\ Return(FALSE, o.msg)
            /\ UNCHANGED <<ri, raised>>
    /\ UNCHANGED <<value, rule_str, val_str, eval_value, val_bool, rules, tokens, tree>>

RuleKeyword ==
    /\ vpc = "loop"
    /\ ri <= Len(rules)
    /\ rules[ri] # <<>>
    /\ IsKeywordRule(rules[ri])
    /\ RuleStep(KeywordOutcome(rules[ri], val_str, val_bool))
    /\ UNCHANGED OutsideRule

\* ast.parse(expr, mode='eval'): the tokens of the expression, then its tree
RuleTokenize ==
    /\ vpc = "loop"
    /\ ri <= Len(rules)
    /\ rules[ri] # <<>>
    /\ ~IsKeywordRule(rules[ri])
    /\ tokens' = Tokenize(Expand(rules[ri]))
    /\ vpc' = "tokens"
    /\ UNCHANGED <<value, rule_str, val_str, eval_value, val_bool, rules, ri, tree, result,
                   raised, evaluated>>
    /\ UNCHANGED OutsideRule

RuleParse ==
    /\ vpc = "tokens"
    /\ tree' = ParseTokens(tokens)
    /\ vpc' = "tree"
    /\ UNCHANGED <<value, rule_str, val_str, eval_value, val_bool, rules, ri, tokens, result,
                   raised, evaluated>>
    /\ UNCHANGED OutsideRule

\* result = _safe_eval(tree, context), and the handler
RuleEvaluate ==
    /\ vpc = "tree"
    /\ RuleStep(ExpressionOutcome(rules[ri], tree, Context(eval_value)))
    /\ UNCHANGED OutsideRule

\* return True, ""
ValidateAllPassed ==
    /\ vpc = "loop"
    /\ ri > Len(rules)
    /\ Return(TRUE, NoMsg)
    /\ UNCHANGED <<value, rule_str, val_str, eval_value, val_bool, rules, ri, tokens, tree,
                   raised, evaluated>>
    /\ UNCHANGED OutsideRule

RuleNext ==
    \/ ValidateNoRule
    \/ ValidateNormalize
    \/ RuleBlank
    \/ RuleKeyword
    \/ RuleTokenize
    \/ RuleParse
    \/ RuleEvaluate
    \/ ValidateAllPassed



(***************************************************************************)
(* Properties of validate_checklist_rule                                   *)
(***************************************************************************)
Range(f) == {f[i] : i \in DOMAIN f}

\* what the loop body makes of the sub-rule on its own
SubRuleOutcome(rule) ==
    IF IsKeywordRule(rule) THEN KeywordOutcome(rule, val_str, val_bool)
    ELSE ExpressionOutcome(rule, ast_parse(Expand(rule)), Context(eval_value))

\* the tree holds a node outside the allowed set: a call, an attribute
\* access, a boolean operator, a tuple, an operator that SAFE_OPERATORS does
\* not list, a name other than value, True, False, None
RECURSIVE UsesUnsupported(_)
UsesUnsupported(node) ==
    CASE node.node = "Constant" -> FALSE
      [] node.node = "Name" -> node.id \notin {kw.value, kw.True, kw.False, kw.None}
      [] node.node = "Expression" -> UsesUnsupported(node.body)
      [] node.node = "BinOp" ->
            \/ node.op \notin SAFE_OPERATORS
            \/ UsesUnsupported(node.left)
            \/ UsesUnsupported(node.right)
      [] node.node = "UnaryOp" ->
            node.op \notin SAFE_OPERATORS \/ UsesUnsupported(node.operand)
      [] node.node = "Compare" ->
            \/ \E i \in 1..Len(node.ops) : node.ops[i] \notin SAFE_OPERATORS
            \/ UsesUnsupported(node.left)
            \/ \E i \in 1..Len(node.comparators) : UsesUnsupported(node.comparators[i])
      [] OTHER -> TRUE

\* the sub-rule is an expression that does not parse or is outside the grammar
Unsafe(rule) ==
    /\ ~IsKeywordRule(rule)
    /\ LET p == ast_parse(Expand(rule)) IN ~p.ok \/ UsesUnsupported(p.ast)

\* C1: validate_checklist_rule returns a (bool, message) pair and never
\* raises; when a reached sub-rule does not parse or uses anything outside
\* the allowed node set, the result is (False, non-empty reason).
C1_NeverRaises ==
    vpc = "done" =>
        /\ raised = ""
        /\ result.valid \in BOOLEAN
        /\ \A i \in Range(evaluated) :
              Unsafe(rules[i]) => (~result.valid /\ result.msg.text # "")

\* an operator outside SAFE_OPERATORS was looked up and the KeyError reported
C1_Witness ==
    /\ vpc = "done"
    /\ rule_str # <<>>
    /\ \E i \in Range(evaluated) : Unsafe(rules[i])
    /\ result.msg.exc = "KeyError"

NonBlank == {i \in 1..Len(rules) : rules[i] # <<>>}

Failing == {i \in NonBlank : ~SubRuleOutcome(rules[i]).pass}

LeftmostFailing == CHOOSE i \in Failing : \A j \in Failing : i <= j

\* C8: the result is valid iff every non-empty comma-separated sub-rule
\* passes; when it is invalid the reason is the message of the leftmost
\* failing sub-rule, and no sub-rule to the right of that one is evaluated.
C8_FirstFailureWins ==
    (vpc = "done" /\ rule_str # <<>>) =>
        /\ rules = SplitRules(rule_str)
        /\ result.valid <=> Failing = {}
        /\ Failing # {} =>
              /\ result.msg = SubRuleOutcome(rules[LeftmostFailing]).msg
              /\ \A i \in Range(evaluated) : i <= LeftmostFailing
              /\ LeftmostFailing \in Range(evaluated)

\* a failing sub-rule is followed by one that would raise an error
C8_Witness ==
    /\ vpc = "done"
    /\ ~result.valid
    /\ result.msg.text = "Condition failed"
    /\ \E j \in NonBlank : j > LeftmostFailing /\ Unsafe(rules[j])

\* the sub-rules that compare value with the number 10
NumericComparisons == {R.gt, R.lt, R.ge, R.le, R.eq, R.ne, R.vgt}

\* C9: for a value that does not parse as a number, a sub-rule comparing
\* value with a numeric literal fails with a reason, for every operator
\* among > < >= <= == != .
C9_StringAgainstNumberFails ==
    (vpc = "done" /\ eval_value.t = "str" /\ rule_str \in NumericComparisons) =>
        (~result.valid /\ result.msg.text # "")

\* the parts of s between its commas, a comma inside a quoted string kept
RECURSIVE SplitTopLevel(_, _, _)
SplitTopLevel(s, quote, acc) ==
    IF s = <<>> THEN <<acc>>
    ELSE IF quote = "" /\ s[1] = "," THEN <<acc>> \o SplitTopLevel(Tail(s), "", <<>>)
    ELSE LET q == IF quote = "" /\ s[1] \in {"\"", "'"} THEN s[1]
                  ELSE IF quote = s[1] THEN "" ELSE quote
         IN  SplitTopLevel(Tail(s), q, Append(acc, s[1]))


TopLevelRules(rs) ==
    LET parts == SplitTopLevel(rs, "", <<>>) IN [i \in 1..Len(parts) |-> Strip(parts[i])]

Rule_eq_a_comma_b == Join(<<R.quote_a, R.b_quote>>, <<",">>)

\* C10: the rule string is split at top-level commas only: a comma inside a
\* quoted string does not separate sub-rules, and the rule value == "a,b"
\* passes for the value "a,b".
C10_TopLevelCommas ==
    (vpc = "done" /\ rule_str = Rule_eq_a_comma_b) =>
        /\ rules = TopLevelRules(rule_str)
        /\ value = V.a_comma_b => result.valid

(***************************************************************************)
(* os.path of the retention pass (posixpath): join, normpath, abspath.     *)
(***************************************************************************)
isabs(p) == p # <<>> /\ p[1] = "/"

\* os.path.join(a, b)
path_join(a, b) ==
    IF isabs(b) THEN b
    ELSE IF a = <<>> \/ a[Len(a)] = "/" THEN a \o b
    ELSE a \o <<"/">> \o b

\* the loop of normpath over the components
RECURSIVE NormComps(_, _, _)
NormComps(comps, initial_slashes, new_comps) ==
    IF comps = <<>> THEN new_comps
    ELSE LET comp == Head(comps)
             rest == Tail(comps)
             dotdot == <<".", ".">>
         IN  IF comp = <<>> \/ comp = <<".">>
             THEN NormComps(rest, initial_slashes, new_comps)
             ELSE IF \/ comp # dotdot
                     \/ (initial_slashes = 0 /\ new_comps = <<>>)
                     \/ (new_comps # <<>> /\ new_comps[Len(new_comps)] = dotdot)
             THEN NormComps(rest, initial_slashes, Append(new_comps, comp))
             ELSE IF new_comps # <<>>
             THEN NormComps(rest, initial_slashes, Slice(new_comps, 1, Len(new_comps) - 1))
             ELSE NormComps(rest, initial_slashes, new_comps)

\* os.path.normpath(path)
normpath(path) ==
    IF path = <<>> THEN <<".">>
    ELSE LET initial_slashes ==
                 IF ~isabs(path) THEN 0
                 ELSE IF StartsAt(path, <<"/", "/">>, 1) /\ ~StartsAt(path, <<"/", "/", "/">>, 1)
                 THEN 2 ELSE 1
             comps == NormComps(SplitAll(path, <<"/">>), initial_slashes, <<>>)
             joined == Join(comps, <<"/">>)
             p == [i \in 1..initial_slashes |-> "/"] \o joined
         IN  IF p = <<>> THEN <<".">> ELSE p

\* os.path.abspath(path), the working directory being /w
abspath(path) == normpath(IF isabs(path) THEN path ELSE path_join(<<"/", "w">>, path))

(***************************************************************************)
(* datetime of the retention pass.  A date is its proleptic Gregorian      *)
(* ordinal (date.toordinal), a modification time is seconds since the      *)
(* epoch, and local time is UTC.                                           *)
(***************************************************************************)
DaysInMonth(y, m) ==
    IF m = 2 THEN (IF y % 4 = 0 /\ (y % 100 # 0 \/ y % 400 = 0) THEN 29 ELSE 28)
    ELSE IF m \in {4, 6, 9, 11} THEN 30 ELSE 31

RECURSIVE DaysBeforeMonth(_, _)
DaysBeforeMonth(y, m) ==
    IF m = 1 THEN 0 ELSE DaysBeforeMonth(y, m - 1) + DaysInMonth(y, m - 1)

\* datetime.date(y, m, d).toordinal()
toordinal(y, m, d) ==
    LET y1 == y - 1
    IN  y1 * 365 + (y1 \div 4) - (y1 \div 100) + (y1 \div 400) + DaysBeforeMonth(y, m) + d

\* datetime.datetime.strptime(date_part, "%Y-%m-%d").date(): [ok, date];
\* ok = FALSE stands for ValueError
strptime(date_part) ==
    LET parts == SplitAll(date_part, <<"-">>)
        wellformed ==
            /\ Len(parts) = 3
            /\ Len(parts[1]) = 4
            /\ Len(parts[2]) \in 1..2
            /\ Len(parts[3]) \in 1..2
            /\ \A i \in 1..3 : AllDigits(parts[i])
        y == DigitsVal(parts[1])
        m == DigitsVal(parts[2])
        d == DigitsVal(parts[3])
    IN  IF wellformed /\ y >= 1 /\ m \in 1..12 /\ d \in 1..DaysInMonth(y, m)
        THEN [ok |-> TRUE, date |-> toordinal(y, m, d)]
        ELSE [ok |-> FALSE, date |-> 0]

\* datetime.date.fromtimestamp(mtime)
fromtimestamp(mtime) == toordinal(1970, 1, 1) + (mtime \div 86400)

\* the modification time of a moment of a day
Timestamp(y, m, d, seconds) == (toordinal(y, m, d) - toordinal(1970, 1, 1)) * 86400 + seconds

\* datetime.date.today()
today == toordinal(2026, 11, 3)

\* a date taken from the modification time alone
FileDate_mtime(file_info) == fromtimestamp(file_info.mtime)

\* the date the age pass gives a file: the leading part of its name when
\* that is a date, the day of its modification time otherwise
FileDate(file_info) ==
    LET date_part == SplitAll(file_info.name, <<"_">>)[1]
        parsed == strptime(date_part)
    IN  IF parsed.ok THEN parsed.date ELSE fromtimestamp(file_info.mtime)

(***************************************************************************)
(* Inputs of cleanup_logs: the entries of the log directory, the quotas    *)
(* and the excluded paths.  An entry is [name, isfile, size, mtime,        *)
(* locked, statable]: os.remove fails on a locked entry, os.stat on one    *)
(* that is not statable.                                                   *)
(***************************************************************************)
Entry(name, isfile, size, mtime, locked, statable) ==
    [name |-> name, isfile |-> isfile, size |-> size, mtime |-> mtime,
     locked |-> locked, statable |-> statable]

Catalogue == {
    Entry(<<"2", "0", "2", "6", "-", "1", "0", "-", "0", "3", "_", "a">>, TRUE, 600, Timestamp(2026, 11, 1, 0), FALSE, TRUE),
    Entry(<<"2", "0", "2", "6", "-", "1", "0", "-", "0", "4", "_", "b">>, TRUE, 1100, Timestamp(2026, 1, 1, 0), FALSE, TRUE),
    Entry(<<"x", ".", "l", "o", "g">>, TRUE, 1024, Timestamp(2026, 10, 3, 86399), TRUE, TRUE),
    Entry(<<"2", "0", "2", "6", "-", "1", "3", "-", "0", "1", "_", "d">>, TRUE, 600, Timestamp(2026, 11, 1, 0), FALSE, TRUE),
    Entry(<<"e">>, TRUE, 5000, Timestamp(2026, 1, 1, 0), FALSE, FALSE),
    Entry(<<"s", "u", "b">>, FALSE, 0, Timestamp(2026, 1, 1, 0), FALSE, TRUE)
}

Procs == {1, 2}

NoArgs == [max_size_gb |-> [n |-> 0, d |-> 1], retention_days |-> 0, excluded_paths |-> <<>>]

\* the arguments of a call; max_size_gb is the fraction n/d: 0 and 2^-20 GB
\* (1024 bytes); the paths to exclude are an absolute path, a relative one,
\* one that is not normalised, and the name of a log file without its
\* directory
Calls ==
    LET ExcludedPaths == {
            <<"/", "w", "/", "l", "o", "g", "s", "/", "2", "0", "2", "6", "-", "1", "0", "-", "0", "3", "_", "a">>,
            <<"l", "o", "g", "s", "/", "2", "0", "2", "6", "-", "1", "0", "-", "0", "3", "_", "a">>,
            <<"l", "o", "g", "s", "/", ".", "/", "2", "0", "2", "6", "-", "1", "0", "-", "0", "4", "_", "b">>,
            <<"2", "0", "2", "6", "-", "1", "0", "-", "0", "3", "_", "a">>
        }
    IN  [max_size_gb : {[n |-> 0, d |-> 1], [n |-> 1, d |-> 1048576]},
         retention_days : {0, 30},
         excluded_paths : SeqsUpTo(ExcludedPaths, MaxExcluded)]

(***************************************************************************)
(* cleanup_logs, one step per file-system call.  Each call of the method   *)
(* (process p) has its own locals; the directory is shared.                *)
(***************************************************************************)
DiskEntry(name) == CHOOSE e \in disk : e.name = name

\* {os.path.abspath(p) for p in (excluded_paths or [])}
ExcludedSet_raw(paths) == {paths[i] : i \in 1..Len(paths)}

ExcludedSet(paths) == {abspath(paths[i]) : i \in 1..Len(paths)}

\* max_size_gb * 1024 * 1024 * 1024, as a fraction in lowest terms
max_size_bytes(gb) ==
    LET n == gb.n * 1024 * 1024 * 1024
        g == GCD(n, gb.d)
    IN  [n |-> n \div g, d |-> gb.d \div g]

\* total_size > max_size_bytes
OverQuota(total, gb) == total * max_size_bytes(gb).d > max_size_bytes(gb).n

\* sum(f["size"] for f in files)
RECURSIVE SumSizes(_)
SumSizes(fs) == IF fs = <<>> THEN 0 ELSE fs[1].size + SumSizes(Tail(fs))

\* a list that is left in the order of the directory listing
SortByMtime_unsorted(fs) == fs

\* files.sort(key=lambda x: x["mtime"]): a stable sort
RECURSIVE InsertByMtime(_, _)
InsertByMtime(sorted, x) ==
    IF sorted = <<>> THEN <<x>>
    ELSE IF sorted[Len(sorted)].mtime <= x.mtime THEN Append(sorted, x)
    ELSE Append(InsertByMtime(Slice(sorted, 1, Len(sorted) - 1), x), sorted[Len(sorted)])

RECURSIVE SortByMtime(_)
SortByMtime(fs) ==
    IF fs = <<>> THEN <<>>
    ELSE InsertByMtime(SortByMtime(Slice(fs, 1, Len(fs) - 1)), fs[Len(fs)])

\* os.remove(path) succeeds
CanRemove(name) == name \in present /\ ~DiskEntry(name).locked

CleanInputs == <<disk, dir_state, base_dir, args>>

CleanIdle ==
    /\ disk = {}
    /\ present = {}
    /\ dir_state = "missing"
    /\ base_dir = <<>>
    /\ cpc = [p \in Procs |-> "off"]
    /\ args = [p \in Procs |-> NoArgs]
    /\ excluded_paths = [p \in Procs |-> {}]
    /\ deleted_count = [p \in Procs |-> 0]
    /\ files = [p \in Procs |-> <<>>]
    /\ dir_list = [p \in Procs |-> <<>>]
    /\ remaining_files = [p \in Procs |-> <<>>]
    /\ total_size = [p \in Procs |-> 0]
    /\ pos = [p \in Procs |-> 0]
    /\ ret = [p \in Procs |-> -1]
    /\ removals = <<>>

\* a handler that catches only a refused access
CaughtOSError_permission_only(exc) == exc = "PermissionError"

\* a handler that catches only a missing file
CaughtOSError_missing_only(exc) == exc = "FileNotFoundError"

\* except OSError, except (PermissionError, OSError)
CaughtOSError(exc) == exc \in {"OSError", "PermissionError", "FileNotFoundError"}

\* return n
CleanReturn(p, n) ==
    /\ ret' = [ret EXCEPT ![p] = n]
    /\ cpc' = [cpc EXCEPT ![p] = "done"]

\* a try_remove that counts the attempt, not the removal
try_remove_counts_attempts(p, file_info, pass) ==
    /\ removals' = Append(removals, [p |-> p, name |-> file_info.name, pass |-> pass,
                                     ok |-> CanRemove(file_info.name)])
    /\ deleted_count' = [deleted_count EXCEPT ![p] = @ + 1]
    /\ present' = IF CanRemove(file_info.name) THEN present \ {file_info.name} ELSE present
    /\ UNCHANGED cpc

\* try_remove(file_info) in the named pass; the caller tests CanRemove for
\* its result
try_remove(p, file_info, pass) ==
    /\ removals' = Append(removals, [p |-> p, name |-> file_info.name, pass |-> pass,
                                     ok |-> CanRemove(file_info.name)])
    /\ IF CanRemove(file_info.name)
       THEN /\ present' = present \ {file_info.name}
            /\ deleted_count' = [deleted_count EXCEPT ![p] = @ + 1]
            /\ UNCHANGED cpc
       ELSE /\ cpc' = IF CaughtOSError(IF file_info.name \in present
                                       THEN "PermissionError" ELSE "FileNotFoundError")
                      THEN cpc ELSE [cpc EXCEPT ![p] = "raised"]
            /\ UNCHANGED <<present, deleted_count>>

\* if not os.path.exists(self.base_dir): return 0; the set of excluded paths
CleanStart ==
    \E p \in Procs :
      /\ cpc[p] = "start"
      /\ IF dir_state = "missing"
         THEN /\ CleanReturn(p, 0)
              /\ UNCHANGED excluded_paths
         ELSE /\ excluded_paths' = [excluded_paths EXCEPT ![p] = ExcludedSet(args[p].excluded_paths)]
              /\ cpc' = [cpc EXCEPT ![p] = "listdir"]
              /\ UNCHANGED ret
      /\ UNCHANGED <<present, deleted_count, files, dir_list, remaining_files, total_size, pos,
                     removals, CleanInputs>>
      /\ UNCHANGED OutsideClean

\* dir_list = os.listdir(self.base_dir), in the order the system gives
CleanListdir ==
    \E p \in Procs :
      /\ cpc[p] = "listdir"
      /\ IF dir_state # "ok"
         THEN /\ IF CaughtOSError("PermissionError")
                 THEN CleanReturn(p, 0)
                 ELSE cpc' = [cpc EXCEPT ![p] = "raised"] /\ UNCHANGED ret
              /\ UNCHANGED <<dir_list, pos>>
         ELSE /\ \E order \in [1..Cardinality(present) -> present] :
                   /\ \A i, j \in 1..Cardinality(present) : order[i] = order[j] => i = j
                   /\ dir_list' = [dir_list EXCEPT ![p] = order]
              /\ pos' = [pos EXCEPT ![p] = 1]
              /\ cpc' = [cpc EXCEPT ![p] = "gather"]
              /\ UNCHANGED ret
      /\ UNCHANGED <<present, excluded_paths, deleted_count, files, remaining_files, total_size,
                     removals, CleanInputs>>
      /\ UNCHANGED OutsideClean

full_path(f) == abspath(path_join(base_dir, f))

\* os.path.isfile(full_path), then the test of the excluded paths
CleanIsFile ==
    \E p \in Procs :
      /\ cpc[p] = "gather"
      /\ pos[p] <= Len(dir_list[p])
      /\ LET f == dir_list[p][pos[p]]
         IN  IF /\ f \in present
                /\ DiskEntry(f).isfile
                /\ full_path(f) \notin excluded_paths[p]
             THEN /\ cpc' = [cpc EXCEPT ![p] = "stat"]
                  /\ UNCHANGED pos
             ELSE /\ pos' = [pos EXCEPT ![p] = @ + 1]
                  /\ UNCHANGED cpc
      /\ UNCHANGED <<present, excluded_paths, deleted_count, files, dir_list, remaining_files,
                     total_size, ret, removals, CleanInputs>>
      /\ UNCHANGED OutsideClean

CleanStat ==
    \E p \in Procs :
      /\ cpc[p] = "stat"
      /\ LET f == dir_list[p][pos[p]]
         IN  IF f \in present /\ DiskEntry(f).statable
             THEN /\ files' = [files EXCEPT ![p] =
                         Append(@, [path |-> full_path(f), name |-> f,
                                    size |-> DiskEntry(f).size, mtime |-> DiskEntry(f).mtime])]
                  /\ cpc' = [cpc EXCEPT ![p] = "gather"]
             ELSE /\ cpc' = [cpc EXCEPT ![p] = IF CaughtOSError(IF f \in present THEN "PermissionError"
                                                                 ELSE "FileNotFoundError")
                                               THEN "gather" ELSE "raised"]
                  /\ UNCHANGED files
      /\ pos' = [pos EXCEPT ![p] = @ + 1]
      /\ UNCHANGED <<present, excluded_paths, deleted_count, dir_list, remaining_files,
                     total_size, ret, removals, CleanInputs>>
      /\ UNCHANGED OutsideClean

\* an end of the gathering loop that runs the date-based loop whatever
\* retention_days is
CleanGathered_always_age ==
    \E p \in Procs :
      /\ cpc[p] = "gather"
      /\ pos[p] > Len(dir_list[p])
      /\ remaining_files' = [remaining_files EXCEPT ![p] = <<>>]
      /\ pos' = [pos EXCEPT ![p] = 1]
      /\ cpc' = [cpc EXCEPT ![p] = "age"]
      /\ UNCHANGED <<present, excluded_paths, deleted_count, files, dir_list, total_size, ret,
                     removals, CleanInputs>>
      /\ UNCHANGED OutsideClean

\* the end of the gathering loop: if retention_days > 0
CleanGathered ==
    \E p \in Procs :
      /\ cpc[p] = "gather"
      /\ pos[p] > Len(dir_list[p])
      /\ IF args[p].retention_days > 0
         THEN /\ remaining_files' = [remaining_files EXCEPT ![p] = <<>>]
              /\ pos' = [pos EXCEPT ![p] = 1]
              /\ cpc' = [cpc EXCEPT ![p] = "age"]
         ELSE /\ cpc' = [cpc EXCEPT ![p] = "size"]
              /\ UNCHANGED <<remaining_files, pos>>
      /\ UNCHANGED <<present, excluded_paths, deleted_count, files, dir_list, total_size, ret,
                     removals, CleanInputs>>
      /\ UNCHANGED OutsideClean

cutoff_date(p) == today - args[p].retention_days

\* the body of the date-based loop for one file
CleanAgeStep ==
    \E p \in Procs :
      /\ cpc[p] = "age"
      /\ pos[p] <= Len(files[p])
      /\ LET file_info == files[p][pos[p]]
             should_delete == FileDate(file_info) < cutoff_date(p)
         IN  IF should_delete
             THEN /\ try_remove(p, file_info, "age")
                  /\ remaining_files' = [remaining_files EXCEPT ![p] =
                         IF CanRemove(file_info.name) THEN @ ELSE Append(@, file_info)]
             ELSE /\ remaining_files' = [remaining_files EXCEPT ![p] = Append(@, file_info)]
                  /\ UNCHANGED <<cpc, present, deleted_count, removals>>
      /\ pos' = [pos EXCEPT ![p] = @ + 1]
      /\ UNCHANGED <<excluded_paths, files, dir_list, total_size, ret, CleanInputs>>
      /\ UNCHANGED OutsideClean

\* files = remaining_files
\* an age pass that leaves the list of files as it was gathered
CleanAgeDone_stale_files ==
    \E p \in Procs :
      /\ cpc[p] = "age"
      /\ pos[p] > Len(files[p])
      /\ cpc' = [cpc EXCEPT ![p] = "size"]
      /\ UNCHANGED <<present, excluded_paths, deleted_count, files, dir_list, remaining_files,
                     total_size, pos, ret, removals, CleanInputs>>
      /\ UNCHANGED OutsideClean

\* files = remaining_files
CleanAgeDone ==
    \E p \in Procs :
      /\ cpc[p] = "age"
      /\ pos[p] > Len(files[p])
      /\ files' = [files EXCEPT ![p] = remaining_files[p]]
      /\ cpc' = [cpc EXCEPT ![p] = "size"]
      /\ UNCHANGED <<present, excluded_paths, deleted_count, dir_list, remaining_files,
                     total_size, pos, ret, removals, CleanInputs>>
      /\ UNCHANGED OutsideClean

\* if max_size_gb > 0: the total, the comparison with the quota, the sort
CleanSizeStart ==
    \E p \in Procs :
      /\ cpc[p] = "size"
      /\ IF args[p].max_size_gb.n > 0
         THEN /\ total_size' = [total_size EXCEPT ![p] = SumSizes(files[p])]
              /\ IF OverQuota(SumSizes(files[p]), args[p].max_size_gb)
                 THEN /\ files' = [files EXCEPT ![p] = SortByMtime(@)]
                      /\ pos' = [pos EXCEPT ![p] = 1]
                      /\ cpc' = [cpc EXCEPT ![p] = "evict"]
                      /\ UNCHANGED ret
                 ELSE /\ CleanReturn(p, deleted_count[p])
                      /\ UNCHANGED <<files, pos>>
         ELSE /\ CleanReturn(p, deleted_count[p])
              /\ UNCHANGED <<files, pos, total_size>>
      /\ UNCHANGED <<present, excluded_paths, deleted_count, dir_list, remaining_files,
                     removals, CleanInputs>>
      /\ UNCHANGED OutsideClean

\* the body of the size-based loop for one file
\* a size pass that takes the size off the total after every attempt
CleanSizeStep_counts_failed ==
    \E p \in Procs :
      /\ cpc[p] = "evict"
      /\ pos[p] <= Len(files[p])
      /\ OverQuota(total_size[p], args[p].max_size_gb)
      /\ try_remove(p, files[p][pos[p]], "size")
      /\ total_size' = [total_size EXCEPT ![p] = @ - files[p][pos[p]].size]
      /\ pos' = [pos EXCEPT ![p] = @ + 1]
      /\ UNCHANGED <<excluded_paths, files, dir_list, remaining_files, ret, CleanInputs>>
      /\ UNCHANGED OutsideClean

CleanSizeStep ==
    \E p \in Procs :
      /\ cpc[p] = "evict"
      /\ pos[p] <= Len(files[p])
      /\ OverQuota(total_size[p], args[p].max_size_gb)
      /\ LET file_info == files[p][pos[p]]
         IN  /\ try_remove(p, file_info, "size")
             /\ total_size' = [total_size EXCEPT ![p] =
                    IF CanRemove(file_info.name) THEN @ - file_info.size ELSE @]
      /\ pos' = [pos EXCEPT ![p] = @ + 1]
      /\ UNCHANGED <<excluded_paths, files, dir_list, remaining_files, ret, CleanInputs>>
      /\ UNCHANGED OutsideClean

\* the size-based loop ends (break, or no file is left): return deleted_count
CleanSizeDone ==
    \E p \in Procs :
      /\ cpc[p] = "evict"
      /\ (pos[p] > Len(files[p]) \/ ~OverQuota(total_size[p], args[p].max_size_gb))
      /\ CleanReturn(p, deleted_count[p])
      /\ UNCHANGED <<present, excluded_paths, deleted_count, files, dir_list, remaining_files,
                     total_size, pos, removals, CleanInputs>>
      /\ UNCHANGED OutsideClean

CleanNext ==
    \/ CleanStart
    \/ CleanListdir
    \/ CleanIsFile
    \/ CleanStat
    \/ CleanGathered
    \/ CleanAgeStep
    \/ CleanAgeDone
    \/ CleanSizeStart
    \/ CleanSizeStep
    \/ CleanSizeDone

(***************************************************************************)
(* Properties of cleanup_logs                                              *)
(***************************************************************************)
\* the absolute path of the file is, after normalisation, one of the paths
\* that call p was given to exclude
ExcludedBy(p, name) ==
    \E i \in 1..Len(args[p].excluded_paths) :
        abspath(args[p].excluded_paths[i]) = abspath(path_join(base_dir, name))

\* C2: a file whose absolute path is in excluded_paths is never removed by
\* cleanup_logs: no removal of it is attempted in the age pass or in the
\* size pass, whatever the quotas, its date and the total size, and a file
\* that is gone from the directory was not excluded by some running call.
C2_ExcludedNeverRemoved ==
    /\ \A i \in 1..Len(removals) : ~ExcludedBy(removals[i].p, removals[i].name)
    /\ \A e \in disk :
          e.name \notin present => \E p \in Procs : cpc[p] # "off" /\ ~ExcludedBy(p, e.name)

\* the call is over: an excluded file older than the cutoff was given by a
\* relative path and is still there, and the size pass, over its quota,
\* removed another file
C2_Witness ==
    /\ cpc[1] = "done"
    /\ args[1].retention_days > 0
    /\ \E e \in disk :
          /\ e.isfile
          /\ ExcludedBy(1, e.name)
          /\ \A i \in 1..Len(args[1].excluded_paths) : ~isabs(args[1].excluded_paths[i])
          /\ FileDate(e) < cutoff_date(1)
          /\ e.name \in present
    /\ \E i \in 1..Len(removals) : removals[i].pass = "size" /\ removals[i].ok

\* the removals that call p attempted in one pass, in the order of the attempts
Attempts(p, pass) == SelectSeq(removals, LAMBDA r : r.p = p /\ r.pass = pass)

\* the sizes of the files that the first k attempts of a pass removed
RECURSIVE RemovedSize(_, _)
RemovedSize(attempts, k) ==
    IF k = 0 THEN 0
    ELSE RemovedSize(attempts, k - 1)
         + (IF attempts[k].ok THEN DiskEntry(attempts[k].name).size ELSE 0)

\* the total of the first k files of a list
PrefixSize(fs, k) == SumSizes(Slice(fs, 1, k))

\* C11: with the size quota enabled, cleanup_logs attempts deletions in
\* non-decreasing modification-time order, and an attempt is made only while
\* the total of the candidate files minus what was removed is strictly above
\* the quota; nothing is deleted when the total is at or under the quota, and
\* when every deletion succeeds the files removed are exactly the shortest
\* oldest-first prefix of the candidates that brings the total to at most the
\* quota.
C11_OldestFirstWhileOver ==
    LET att == Attempts(1, "size")
        gb == args[1].max_size_gb
        total == SumSizes(files[1])
    IN  /\ \A i, j \in 1..Len(att) :
              i < j => DiskEntry(att[i].name).mtime <= DiskEntry(att[j].name).mtime
        /\ cpc[1] \in {"evict", "done"} =>
              /\ \A k \in 1..Len(att) : OverQuota(total - RemovedSize(att, k - 1), gb)
              /\ (gb.n = 0 \/ ~OverQuota(total, gb)) => att = <<>>
        /\ (cpc[1] = "done" /\ att # <<>> /\ \A k \in 1..Len(att) : att[k].ok) =>
              /\ \A k \in 1..Len(att) : att[k].name = files[1][k].name
              /\ ~OverQuota(total - PrefixSize(files[1], Len(att)), gb)
              /\ \A k \in 0..(Len(att) - 1) : OverQuota(total - PrefixSize(files[1], k), gb)

\* two candidates over the quota: the older one was removed, the newer one
\* is kept
C11_Witness ==
    /\ cpc[1] = "done"
    /\ Len(files[1]) = 2
    /\ Len(Attempts(1, "size")) = 1
    /\ Attempts(1, "size")[1].ok
    /\ files[1][1].mtime < files[1][2].mtime
    /\ files[1][2].name \in present
    /\ dir_list[1][1] = files[1][2].name

\* the files that call 1 considers: regular files of the directory whose
\* metadata can be read and that the call was not given to exclude
Candidates == {e \in disk : e.isfile /\ e.statable /\ ~ExcludedBy(1, e.name)}

\* the date of a file: the text before the first "_" of its name when that
\* is a date, the day of its modification time only otherwise
DerivedDate(e) ==
    LET i == Find(e.name, <<"_">>)
        segment == IF i = 0 THEN e.name ELSE Slice(e.name, 1, i - 1)
    IN  IF strptime(segment).ok THEN strptime(segment).date
        ELSE fromtimestamp(e.mtime)

AgeAttempted == {Attempts(1, "age")[i].name : i \in 1..Len(Attempts(1, "age"))}

\* C12: with retention_days > 0 the age pass attempts to delete a candidate
\* file if and only if its derived date is strictly earlier than today minus
\* retention_days; a file dated exactly at the cutoff is kept, and a date in
\* the file name overrides the modification time in both directions.  With
\* retention_days = 0 the age pass attempts nothing.
C12_AgePassByDerivedDate ==
    /\ \A name \in AgeAttempted :
          \E e \in Candidates :
              e.name = name /\ DerivedDate(e) < today - args[1].retention_days
    /\ args[1].retention_days = 0 => AgeAttempted = {}
    /\ (cpc[1] \in {"size", "evict"} \/ (cpc[1] = "done" /\ dir_state = "ok")) =>
          (args[1].retention_days > 0 =>
              AgeAttempted =
                  {e.name : e \in {c \in Candidates :
                                      DerivedDate(c) < today - args[1].retention_days}})

\* the age pass is over: a file with an old date in its name and a recent
\* modification time was attempted, a file named with the cutoff date and
\* modified long before it was not
C12_Witness ==
    /\ cpc[1] = "done"
    /\ args[1].retention_days > 0
    /\ \E e \in Candidates :
          /\ e.name \in AgeAttempted
          /\ fromtimestamp(e.mtime) >= today - args[1].retention_days
    /\ \E e \in Candidates :
          /\ e.name \notin AgeAttempted
          /\ DerivedDate(e) = today - args[1].retention_days
          /\ fromtimestamp(e.mtime) < today - args[1].retention_days

\* the number of attempts of a sequence that removed their file
RECURSIVE CountOk(_)
CountOk(attempts) ==
    IF attempts = <<>> THEN 0
    ELSE (IF attempts[1].ok THEN 1 ELSE 0) + CountOk(Tail(attempts))

\* C13: the value returned by cleanup_logs is the number of files that the
\* call removed from the directory in the age pass and the size pass
\* together: every successful removal counts once, no file is removed
\* twice, and a file whose removal failed is still in the directory and is
\* not counted, even when both passes attempted it.
C13_ReturnsRemovedCount ==
    cpc[1] = "done" =>
        /\ ret[1] = Cardinality({e.name : e \in disk} \ present)
        /\ ret[1] = CountOk(removals)
        /\ \A i, j \in 1..Len(removals) :
              (removals[i].ok /\ removals[j].ok /\ removals[i].name = removals[j].name) => i = j
        /\ \A i \in 1..Len(removals) :
              removals[i].ok <=> removals[i].name \notin present

\* the removal of one file failed in the age pass and again in the size
\* pass; another file was removed and is the only one counted
C13_Witness ==
    /\ cpc[1] = "done"
    /\ ret[1] = 1
    /\ \E i \in 1..Len(Attempts(1, "age")) : \E j \in 1..Len(Attempts(1, "size")) :
          /\ Attempts(1, "age")[i].name = Attempts(1, "size")[j].name
          /\ ~Attempts(1, "age")[i].ok
          /\ ~Attempts(1, "size")[j].ok
          /\ Attempts(1, "age")[i].name \in present

\* C14: with both quotas disabled (max_size_gb = 0 and retention_days = 0)
\* cleanup_logs attempts no removal, leaves every file of the directory in
\* place and returns 0, whatever the directory holds and whatever
\* excluded_paths is.
C14_DisabledQuotasRemoveNothing ==
    (cpc[1] # "off" /\ args[1].max_size_gb.n = 0 /\ args[1].retention_days = 0) =>
        /\ removals = <<>>
        /\ present = {e.name : e \in disk}
        /\ deleted_count[1] = 0
        /\ cpc[1] = "done" => ret[1] = 0

\* a call with both quotas disabled is over, in a directory that holds a
\* candidate file dated before today and more than 1024 bytes
C14_Witness ==
    /\ cpc[1] = "done"
    /\ dir_state = "ok"
    /\ args[1].max_size_gb.n = 0
    /\ args[1].retention_days = 0
    /\ \E e \in Candidates : DerivedDate(e) < today
    /\ SumSizes(files[1]) > 1024
    /\ ret[1] = 0

FileNames(fs) == {fs[i].name : i \in 1..Len(fs)}

\* C15: a failure of the file system never aborts cleanup_logs: no
\* exception of os.listdir, os.stat or os.remove leaves the call; for a
\* missing or unlistable
\* directory it returns 0 and nothing is deleted; a file whose metadata
\* cannot be read is skipped and the other files are still considered;
\* after a failed removal the same pass goes on with the files that are
\* left; the call ends by returning a count.
C15_FailuresNeverAbort ==
    /\ cpc[1] # "raised"
    /\ cpc[1] = "done" => ret[1] \in 0..Cardinality(disk)
    /\ (cpc[1] = "done" /\ dir_state # "ok") =>
          (ret[1] = 0 /\ removals = <<>> /\ present = {e.name : e \in disk})
    /\ \A e \in disk :
          ~e.statable =>
              /\ e.name \notin FileNames(files[1]) \cup FileNames(remaining_files[1])
              /\ \A i \in 1..Len(removals) : removals[i].name # e.name
    /\ (cpc[1] \in {"age", "size", "evict"} \/ (cpc[1] = "done" /\ dir_state = "ok")) =>
          {e.name : e \in Candidates} =
              FileNames(files[1]) \cup {removals[i].name : i \in 1..Len(removals)}
    /\ (cpc[1] \in {"size", "evict"} \/ (cpc[1] = "done" /\ dir_state = "ok")) =>
          \A e \in Candidates :
              (args[1].retention_days > 0 /\ DerivedDate(e) < today - args[1].retention_days)
                  => e.name \in AgeAttempted
    /\ (cpc[1] = "done" /\ dir_state = "ok" /\ args[1].max_size_gb.n > 0) =>
          \/ ~OverQuota(SumSizes(files[1]) - RemovedSize(Attempts(1, "size"), Len(Attempts(1, "size"))),
                        args[1].max_size_gb)
          \/ \A i \in 1..Len(files[1]) :
                \E j \in 1..Len(Attempts(1, "size")) : Attempts(1, "size")[j].name = files[1][i].name

\* the call returned a count after a removal failed in the size pass and
\* the next file of the same pass was removed
C15_Witness ==
    /\ cpc[1] = "done"
    /\ ret[1] = 1
    /\ Len(Attempts(1, "size")) = 2
    /\ ~Attempts(1, "size")[1].ok
    /\ Attempts(1, "size")[2].ok

(***************************************************************************)
(* validate_checklist_rule: keywords, shorthand and normalisation          *)
(***************************************************************************)

\* the sub-rule at index i was the last one evaluated and made the call
\* return (False, reason)
FailedAt(i) ==
    /\ vpc = "done" /\ raised = "" /\ ~result.valid
    /\ evaluated # <<>> /\ evaluated[Len(evaluated)] = i

\* str(value).strip() has no character left (None counts as empty)
TrimmedFormEmpty(v) ==
    \/ v.t = "none"
    \/ v.t = "str" /\ \A k \in 1..Len(v.s) : v.s[k] \in {" ", "\t", "\n", "\r"}

\* C16: the sub-rule 'required', in any letter case, fails exactly for the
\* values whose trimmed string form is empty (None, "", white space) and
\* then gives the reason "Required"; it passes for every other value, the
\* boolean False included.
C16_RequiredIffNonEmpty ==
    \A i \in Range(evaluated) :
        rules[i] \in {R.required, R.ReQuIrEd} =>
            /\ FailedAt(i) <=> TrimmedFormEmpty(value)
            /\ FailedAt(i) => result.msg = Msg("Required", <<>>, "")

\* False passed a mixed-case 'required'
C16_Witness ==
    /\ vpc = "done"
    /\ value = PyFalse
    /\ rule_str = R.ReQuIrEd
    /\ result.valid

\* the value counts as checked: the boolean True, or a non-boolean whose
\* string form, with the white space around it taken off when trimmed is
\* set, is "true" in some letter case
CountsAsChecked(v, trimmed) ==
    IF v.t = "bool" THEN v = PyTrue
    ELSE v.t # "none" /\ Lower(IF trimmed THEN Strip(str(v)) ELSE str(v)) = <<"t", "r", "u", "e">>

\* the outcome of the evaluated sub-rules 'checked' and 'unchecked', in any
\* letter case, under a reading of "counts as checked"
CheckedUnchecked(trimmed) ==
    /\ \A i \in Range(evaluated) :
          /\ rules[i] = R.Checked =>
                /\ FailedAt(i) <=> ~CountsAsChecked(value, trimmed)
                /\ FailedAt(i) => result.msg = Msg("Must be checked", <<>>, "")
          /\ rules[i] = R.UNCHECKED =>
                /\ FailedAt(i) <=> CountsAsChecked(value, trimmed)
                /\ FailedAt(i) => result.msg = Msg("Must be unchecked", <<>>, "")
    /\ (vpc # "start" /\ rule_str # <<>>) =>
          KeywordOutcome(R.Checked, val_str, val_bool).pass
              # KeywordOutcome(R.UNCHECKED, val_str, val_bool).pass

\* C17 as stated: for every value exactly one of 'checked' and 'unchecked'
\* passes; 'checked' passes iff the value is the boolean True or a
\* non-boolean whose string form equals "true" without regard to case.
\* The answer " tRUE" passes 'checked' although its string form is not
\* "true".
C17_AsStated == CheckedUnchecked(FALSE)

\* C17: for every value exactly one of 'checked' and 'unchecked' passes;
\* 'checked' passes iff the value is the boolean True or a non-boolean whose
\* trimmed string form equals "true" without regard to case; the keywords
\* are matched without regard to case.
C17_CheckedXorUnchecked == CheckedUnchecked(TRUE)

\* the text "True" passed 'Checked'
C17_Witness ==
    /\ vpc = "done"
    /\ value = V.true_mixed
    /\ rule_str = R.Checked
    /\ result.valid

\* the valid/invalid outcome of an expression sub-rule evaluated as it is
\* written, without the shorthand
ValidAsWritten(v, expr) ==
    ExpressionOutcome(expr, ast_parse(expr), Context(NormEval(v))).pass

\* C18: an expression sub-rule that begins with one of > < = ! has the
\* valid/invalid outcome of "value " followed by the sub-rule; a sub-rule
\* that begins with another character is evaluated as written.
C18_ShorthandPrefix ==
    \A i \in Range(evaluated) :
        ~IsKeywordRule(rules[i]) =>
            /\ raised = ""
            /\ ~FailedAt(i) <=>
                  ValidAsWritten(value,
                      IF rules[i][1] \in {">", "<", "=", "!"}
                      THEN <<"v", "a", "l", "u", "e", " ">> \o rules[i] ELSE rules[i])

\* "15" passed the shorthand "!= 10"
C18_Witness ==
    /\ vpc = "done"
    /\ value = V.fifteen
    /\ rule_str = R.ne
    /\ result.valid

\* the text answers that are spelled as a number, with the number each one
\* denotes as numerator and denominator
NumericTexts == {[v |-> V.fifteen, n |-> 15, d |-> 1],
                 [v |-> V.five, n |-> 5, d |-> 1],
                 [v |-> V.zero, n |-> 0, d |-> 1]}

\* what the identifier value has to be bound to: a boolean as it is, a
\* number for a float and for a text spelled as a number, and the trimmed
\* text for everything else (empty for None)
BoundValue(v) ==
    IF v.t \in {"bool", "float"} THEN v
    ELSE IF \E x \in NumericTexts : x.v = v
    THEN LET x == CHOOSE x \in NumericTexts : x.v = v
         IN  [t |-> "float", n |-> x.n, d |-> x.d, s |-> <<>>]
    ELSE IF v.t = "none" THEN PyStr(<<>>)
    ELSE PyStr(Strip(v.s))

\* C19: in expressions the identifier value is bound to the normalized
\* value: a boolean unchanged, any other value the number its trimmed string
\* form parses to, and the trimmed string only when that fails. A text
\* spelled as a number is compared as a number: it passes "> 10" iff the
\* number exceeds 10, and comparing it with a string literal is a type
\* error.
C19_ValueBoundToNormalized ==
    (vpc # "start" /\ rule_str # <<>>) =>
        /\ eval_value = BoundValue(value)
        /\ \A i \in Range(evaluated) :
              \A x \in NumericTexts :
                  value = x.v =>
                      /\ rules[i] \in {R.gt, R.vgt} => (~FailedAt(i) <=> x.n > 10 * x.d)
                      /\ rules[i] = R.lt_b =>
                            FailedAt(i) /\ result.msg.exc = "TypeError"

\* the text "15" passed "> 10"
C19_Witness ==
    /\ vpc = "done"
    /\ value = V.fifteen
    /\ rule_str = R.gt
    /\ eval_value.t = "float"
    /\ result.valid

(***************************************************************************)
(* LogService.validate_log_entry(flight_no, date, vehicle, checklist_items)*)
(* flight_no, date and vehicle are texts; checklist_items is the dict in   *)
(* its order of insertion, a sequence of [name, rule, value] where rule is *)
(* None when the item has no "rule" key. An entry of errors is [item, msg]:*)
(* item is empty for a field and msg is the message, for an item the       *)
(* reason given by validate_checklist_rule. The call of                    *)
(* validate_checklist_rule runs the steps of that function.                *)
(***************************************************************************)
LogIdle ==
    /\ lpc = "idle"
    /\ flight_no = <<>>
    /\ date = <<>>
    /\ vehicle = <<>>
    /\ checklist_items = <<>>
    /\ errors = <<>>
    /\ li = 0
    /\ log_ret = [is_valid |-> FALSE, errors |-> <<>>]

\* the three checks of the fields
LogFields ==
    /\ lpc = "start"
    /\ errors' =
          (IF ~Truthy(PyStr(flight_no))
           THEN <<[item |-> <<>>, msg |-> Msg("Flight ID is required.", <<>>, "")]>> ELSE <<>>)
          \o (IF ~Truthy(PyStr(vehicle))
              THEN <<[item |-> <<>>, msg |-> Msg("Vehicle selection is required.", <<>>, "")]>>
              ELSE <<>>)
          \o (IF ~Truthy(PyStr(date))
              THEN <<[item |-> <<>>, msg |-> Msg("Date is required.", <<>>, "")]>> ELSE <<>>)
    /\ li' = 1
    /\ lpc' = "loop"
    /\ UNCHANGED <<flight_no, date, vehicle, checklist_items, log_ret>>
    /\ UNCHANGED <<dvars, rvars, cvars>>

\* the head of the loop body: an item with a rule calls
\* validate_checklist_rule(val, rule), an item without one is passed over
LogCall ==
    /\ lpc = "loop"
    /\ li <= Len(checklist_items)
    /\ LET data == checklist_items[li]
       IN  IF Truthy(data.rule)
           THEN /\ vpc' = "start"
                /\ value' = data.value
                /\ rule_str' = data.rule.s
                /\ val_str' = <<>>
                /\ eval_value' = PyNone
                /\ val_bool' = FALSE
                /\ rules' = <<>>
                /\ ri' = 0
                /\ tokens' = NoTokens
                /\ tree' = NoTree
                /\ result' = [valid |-> FALSE, msg |-> NoMsg]
                /\ raised' = ""
                /\ evaluated' = <<>>
                /\ lpc' = "call"
                /\ UNCHANGED li
           ELSE /\ li' = li + 1
                /\ UNCHANGED <<lpc, rvars>>
    /\ UNCHANGED <<flight_no, date, vehicle, checklist_items, errors, log_ret>>
    /\ UNCHANGED <<dvars, cvars>>

\* a loop that reports the first failing item only
LogResume_first_item_only ==
    /\ lpc = "call"
    /\ vpc = "done"
    /\ errors' = IF ~result.valid /\ \A i \in 1..Len(errors) : errors[i].item = <<>>
                 THEN Append(errors, [item |-> checklist_items[li].name, msg |-> result.msg])
                 ELSE errors
    /\ li' = li + 1
    /\ lpc' = "loop"
    /\ UNCHANGED <<flight_no, date, vehicle, checklist_items, log_ret>>
    /\ UNCHANGED <<dvars, rvars, cvars>>

\* validate_checklist_rule has returned (is_valid, err_msg), or raised
LogResume ==
    /\ lpc = "call"
    /\ vpc = "done"
    /\ IF raised # ""
       THEN /\ lpc' = "raised"
            /\ UNCHANGED <<errors, li>>
       ELSE /\ errors' = IF ~result.valid
                         THEN Append(errors, [item |-> checklist_items[li].name,
                                              msg |-> result.msg])
                         ELSE errors
            /\ li' = li + 1
            /\ lpc' = "loop"
    /\ UNCHANGED <<flight_no, date, vehicle, checklist_items, log_ret>>
    /\ UNCHANGED <<dvars, rvars, cvars>>

\* return len(errors) == 0, errors
LogReturn ==
    /\ lpc = "loop"
    /\ li > Len(checklist_items)
    /\ log_ret' = [is_valid |-> Len(errors) = 0, errors |-> errors]
    /\ lpc' = "done"
    /\ UNCHANGED <<flight_no, date, vehicle, checklist_items, errors, li>>
    /\ UNCHANGED <<dvars, rvars, cvars>>

LogNext ==
    \/ LogFields
    \/ LogCall
    \/ LogResume
    \/ LogReturn
    \/ ValidateNormalize
    \/ RuleBlank
    \/ RuleKeyword
    \/ RuleTokenize
    \/ RuleParse
    \/ RuleEvaluate
    \/ ValidateAllPassed

(***************************************************************************)
(* Properties of parse_params                                              *)
(***************************************************************************)
\* the lines of the text that is parsed
RawLines == splitlines(current_content)

\* the text of a line that precedes the earliest "#" or "//" of the line
BeforeComment(line) ==
    LET marks == {i \in 1..Len(line) :
                     \/ line[i] = "#"
                     \/ line[i] = "/" /\ i < Len(line) /\ line[i + 1] = "/"}
    IN  IF marks = {} THEN line
        ELSE Slice(line, 1, (CHOOSE i \in marks : \A j \in marks : i <= j) - 1)

\* the text holds "#" or "//"
HasMarker(s) ==
    \E i \in 1..Len(s) : s[i] = "#" \/ (s[i] = "/" /\ i < Len(s) /\ s[i + 1] = "/")

\* C21: parse_params uses of every line only the text before the earliest
\* "#" or "//": the map is the one of the text with the comments cut off, no
\* key and no value holds "#" or "//", and the lines that are empty after
\* comment removal and trimming give no entry.
C21_CommentsCutOff ==
    dpc = "parsed" =>
        /\ curr_dict =
              parse_params(Join([i \in 1..Len(RawLines) |-> BeforeComment(RawLines[i])], <<NL>>))
        /\ \A k \in DOMAIN curr_dict : ~HasMarker(k) /\ ~HasMarker(curr_dict[k])
        /\ Cardinality(DOMAIN curr_dict) <=
              Cardinality({i \in 1..Len(RawLines) : Strip(BeforeComment(RawLines[i])) # <<>>})

\* "K=W//c#d" gave K the value W, next to a line that is all comment
C21_Witness ==
    /\ dpc = "parsed"
    /\ RawLines = <<<<"/", "/", "c">>, <<"K", "=", "W", "/", "/", "c", "#", "d">>>>
    /\ curr_dict = [k \in {<<"K">>} |-> <<"W">>]

\* the position at which a line without comments is split: the first "=" if
\* there is one, else the first ",", else the first white space (0: none)
SplitPoint(line) ==
    LET At(S) == {i \in 1..Len(line) : line[i] \in S}
        First(S) == CHOOSE i \in At(S) : \A j \in At(S) : i <= j
    IN  IF At({"="}) # {} THEN First({"="})
        ELSE IF At({","}) # {} THEN First({","})
        ELSE IF At({" ", "\t"}) # {} THEN First({" ", "\t"})
        ELSE 0

\* key and value a raw line stands for: the trimmed texts on both sides of
\* the split point of the line without its comment; has: there is a split
\* point and the key is not empty
LineEntry(raw) ==
    LET line == Strip(BeforeComment(raw))
        at == SplitPoint(line)
    IN  [has |-> at > 1,
         key |-> Strip(Slice(line, 1, at - 1)),
         val |-> Strip(Slice(line, at + 1, Len(line)))]

\* C22: every line is split once, at the first "=" if it holds one (a comma
\* or white space before it belongs to the key), else at the first ",",
\* else at the first run of white space; both parts are trimmed, and a line
\* with "=" and an empty key gives nothing even when a "," follows.
C22_DelimiterPriority ==
    dpc = "parsed" =>
        /\ DOMAIN curr_dict =
              {LineEntry(RawLines[i]).key : i \in {j \in 1..Len(RawLines) : LineEntry(RawLines[j]).has}}
        /\ \A i \in 1..Len(RawLines) :
              LET e == LineEntry(RawLines[i])
              IN  (e.has /\ \A j \in (i + 1)..Len(RawLines) : LineEntry(RawLines[j]).key # e.key)
                      => curr_dict[e.key] = e.val

\* a comma and a blank before "=" stayed in the key
C22_Witness ==
    /\ dpc = "parsed"
    /\ RawLines = <<<<"A", ",", "B", "=", "1">>, <<"A", " ", "B", "=", "1">>>>
    /\ curr_dict = [k \in {<<"A", ",", "B">>, <<"A", " ", "B">>} |-> <<"1">>]

\* C23: an entry is added for a line only when the split gives a non-empty
\* trimmed key and a non-empty trimmed value; "=V", "K=" and "K" are passed
\* over, so every value of the map is non-empty. The line "K=" gives the
\* entry K with the empty value.
C23_TwoNonTrivialParts ==
    dpc = "parsed" =>
        /\ DOMAIN curr_dict =
              {LineEntry(RawLines[i]).key :
                  i \in {j \in 1..Len(RawLines) :
                            LineEntry(RawLines[j]).has /\ LineEntry(RawLines[j]).val # <<>>}}
        /\ \A k \in DOMAIN curr_dict : k # <<>> /\ curr_dict[k] # <<>>

\* the lines on which the key k occurs
LinesOf(k) == {i \in 1..Len(RawLines) : LineEntry(RawLines[i]).has /\ LineEntry(RawLines[i]).key = k}

\* C24: when a key occurs on several lines of a text, the map holds for it
\* the value of the last of these lines, and the key is there once.
C24_LastWriteWins ==
    dpc = "parsed" =>
        \A k \in {LineEntry(RawLines[i]).key : i \in 1..Len(RawLines)} :
            LinesOf(k) # {} =>
                LET last == CHOOSE i \in LinesOf(k) : \A j \in LinesOf(k) : j <= i
                IN  /\ k \in DOMAIN curr_dict
                    /\ curr_dict[k] = LineEntry(RawLines[last]).val
                    /\ Cardinality({x \in DOMAIN curr_dict : x = k}) = 1

\* K was given V and then W
C24_Witness ==
    /\ dpc = "parsed"
    /\ RawLines = <<<<"K", "=", "V", " ", "#", "c">>, <<"K", "=", "W", "/", "/", "c", "#", "d">>>>
    /\ curr_dict = [k \in {<<"K">>} |-> <<"W">>]

(***************************************************************************)
(* compare_params: the partition of the keys                               *)
(***************************************************************************)
\* the keys with the same value on both sides
Unchanged == {k \in DOMAIN curr_dict \cap DOMAIN ref_dict : curr_dict[k] = ref_dict[k]}

\* the number of the sets of Ss that k is in
Memberships(k, Ss) == Cardinality({i \in 1..Len(Ss) : k \in Ss[i]})

\* C29: the key sets of added, removed and changed are pairwise disjoint;
\* every key of the filtered current map is in exactly one of added, changed
\* and the unchanged keys, every key of the filtered reference map in
\* exactly one of removed, changed and the unchanged keys.
C29_KeysPartitioned ==
    dpc = "done" =>
        /\ DOMAIN added \cap DOMAIN removed = {}
        /\ DOMAIN added \cap DOMAIN changed = {}
        /\ DOMAIN removed \cap DOMAIN changed = {}
        /\ \A k \in DOMAIN curr_dict :
              Memberships(k, <<DOMAIN added, DOMAIN changed, Unchanged>>) = 1
        /\ \A k \in DOMAIN ref_dict :
              Memberships(k, <<DOMAIN removed, DOMAIN changed, Unchanged>>) = 1

\* a changed key next to an added and a removed one
C29_Witness ==
    /\ dpc = "done"
    /\ DOMAIN changed # {}
    /\ DOMAIN added # {}
    /\ DOMAIN removed # {}

\* the answer is bound to a number: a boolean, a float or a text spelled as
\* a number
Numeric == BoundValue(value).t \in {"bool", "float"}

\* C27: a chained comparison holds iff every adjacent pair holds, from left
\* to right, and stops at the first pair that does not: "0 < value < 10"
\* passes exactly for the numbers between 0 and 10, and "value > 10 > foo()"
\* fails with 'Condition failed' when value > 10 does not hold, the call
\* foo() being reported as an error only when the first pair holds.
C27_ChainShortCircuits ==
    \A i \in Range(evaluated) :
        LET n == BoundValue(value).n
            d == BoundValue(value).d
        IN  /\ (rules[i] = R.chain /\ Numeric) =>
                  /\ ~FailedAt(i) <=> (0 < n /\ n < 10 * d)
                  /\ FailedAt(i) => result.msg.text = "Condition failed"
            /\ (rules[i] = R.chain_call /\ Numeric) =>
                  /\ FailedAt(i)
                  /\ n <= 10 * d => result.msg.text = "Condition failed"
                  /\ n > 10 * d =>
                        (result.msg.text = "Error processing rule" /\ result.msg.exc = "TypeError")

\* "5" against "value > 10 > foo()": the call was never looked at
C27_Witness ==
    /\ vpc = "done"
    /\ value = V.five
    /\ rule_str = R.chain_call
    /\ ~result.valid
    /\ result.msg.text = "Condition failed"

\* C30: an expression sub-rule that is not a comparison passes iff its
\* result is truthy: "value - 5" passes for exactly the numeric answers
\* other than 5, and the bare "value" fails for the answers bound to zero,
\* to False or to the empty text; each failure is a 'Condition failed'.
C30_TruthyResultPasses ==
    \A i \in Range(evaluated) :
        /\ (rules[i] = R.minus /\ Numeric) =>
              /\ ~FailedAt(i) <=> BoundValue(value).n # 5 * BoundValue(value).d
              /\ FailedAt(i) => result.msg = Msg("Condition failed", rules[i], "")
        /\ rules[i] = R.value =>
              /\ ~FailedAt(i) <=>
                    IF Numeric THEN BoundValue(value).n # 0 ELSE BoundValue(value).s # <<>>
              /\ FailedAt(i) => result.msg = Msg("Condition failed", rules[i], "")

\* the answer "5" failed "value - 5"
C30_Witness ==
    /\ vpc = "done"
    /\ value = V.five
    /\ rule_str = R.minus
    /\ ~result.valid
    /\ result.msg.text = "Condition failed"

\* the sum of the sizes of a set of directory entries
RECURSIVE SizeOf(_)
SizeOf(es) ==
    IF es = {} THEN 0
    ELSE LET e == CHOOSE x \in es : TRUE IN e.size + SizeOf(es \ {e})

\* the names of the files that the age pass of call 1 removed
RemovedByAge ==
    {Attempts(1, "age")[i].name : i \in {j \in 1..Len(Attempts(1, "age")) : Attempts(1, "age")[j].ok}}

\* C26: the total that the size pass compares with the quota is the sum of
\* the sizes of exactly the candidate files that the age pass did not
\* remove, less what the size pass itself has removed since: a file removed
\* by the age pass does not count, a file whose age-pass removal failed
\* counts and is in the list of the size pass, an excluded file never
\* counts.
C26_TotalAfterAgePass ==
    (args[1].max_size_gb.n > 0 /\ dir_state = "ok" /\ cpc[1] \in {"evict", "done"}) =>
        /\ total_size[1] + RemovedSize(Attempts(1, "size"), Len(Attempts(1, "size")))
              = SizeOf({e \in Candidates : e.name \notin RemovedByAge})
        /\ FileNames(files[1]) = {e.name : e \in Candidates} \ RemovedByAge

\* the size pass starts over the quota with a file that the age pass tried
\* to remove and could not
C26_Witness ==
    /\ cpc[1] = "evict"
    /\ Attempts(1, "size") = <<>>
    /\ \E i \in 1..Len(Attempts(1, "age")) :
          /\ ~Attempts(1, "age")[i].ok
          /\ Attempts(1, "age")[i].name \in FileNames(files[1])
    /\ total_size[1] = SumSizes(files[1])

\* C28: in the size pass a failed removal leaves the tracked total as it
\* was and the pass goes on with the next-oldest file: the k-th attempt is
\* on the k-th file of the sorted list, the total is the one of the list
\* less the sizes of the files removed, and a file that could not be removed
\* is still there. When the pass has ended, the total is at or under the
\* quota or a removal was attempted on every file of the list.
C28_FailedRemovalGoesOn ==
    (args[1].max_size_gb.n > 0 /\ dir_state = "ok" /\ cpc[1] \in {"evict", "done"}) =>
        LET tried == Attempts(1, "size")
        IN  /\ Len(tried) <= Len(files[1])
            /\ tried # <<>> =>
                  \A a, b \in 1..Len(files[1]) :
                      a < b => files[1][a].mtime <= files[1][b].mtime
            /\ \A k \in 1..Len(tried) :
                  /\ tried[k].name = files[1][k].name
                  /\ ~tried[k].ok => tried[k].name \in present
                  /\ OverQuota(SumSizes(files[1]) - RemovedSize(tried, k - 1), args[1].max_size_gb)
            /\ total_size[1] = SumSizes(files[1]) - RemovedSize(tried, Len(tried))
            /\ cpc[1] = "done" =>
                  \/ ~OverQuota(total_size[1], args[1].max_size_gb)
                  \/ Len(tried) = Len(files[1])

\* an older file that could not be removed is still there, and a newer one
\* was removed after it to get under the quota
C28_Witness ==
    /\ cpc[1] = "done"
    /\ ~OverQuota(total_size[1], args[1].max_size_gb)
    /\ \E older, newer \in disk :
          /\ older.mtime < newer.mtime
          /\ older.name \in present
          /\ newer.name \notin present
          /\ \E i, j \in 1..Len(Attempts(1, "size")) :
                /\ i < j
                /\ Attempts(1, "size")[i] = [p |-> 1, name |-> older.name, pass |-> "size", ok |-> FALSE]
                /\ Attempts(1, "size")[j] = [p |-> 1, name |-> newer.name, pass |-> "size", ok |-> TRUE]

(***************************************************************************)
(* Two interleaved calls of cleanup_logs                                   *)
(***************************************************************************)
\* the removals that succeeded, in the order they were made
Removed == SelectSeq(removals, LAMBDA r : r.ok)

\* C25: when two calls of cleanup_logs on one directory interleave at single
\* file-system calls, neither raises, every file is removed at most once
\* and counted by the call that removed it only, so that the two returned
\* counts add up to the number of files removed, and a file that both calls
\* exclude is never removed.
C25_RaceOnlyChangesWhatIsDeleted ==
    /\ \A p \in Procs : cpc[p] # "raised"
    /\ \A i, j \in 1..Len(Removed) : Removed[i].name = Removed[j].name => i = j
    /\ {Removed[i].name : i \in 1..Len(Removed)} = {e.name : e \in disk} \ present
    /\ \A p \in Procs : deleted_count[p] = CountOk(Attempts(p, "age") \o Attempts(p, "size"))
    /\ (\A p \in Procs : cpc[p] = "done") =>
          ret[1] + ret[2] = Cardinality({e.name : e \in disk} \ present)
    /\ \A e \in disk :
          (\A p \in Procs : ExcludedBy(p, e.name)) =>
              (e.name \in present /\ \A i \in 1..Len(removals) : removals[i].name # e.name)

\* both calls tried to remove the same file: one removed it, the other found
\* it gone, and both returned
C25_Witness ==
    /\ \A p \in Procs : cpc[p] = "done"
    /\ \E i, j \in 1..Len(removals) :
          /\ removals[i].name = removals[j].name
          /\ removals[i].p # removals[j].p
          /\ removals[i].ok
          /\ ~removals[j].ok
          /\ ~DiskEntry(removals[j].name).locked
    /\ ret[1] + ret[2] >= 1

(***************************************************************************)
(* Specifications                                                          *)
(***************************************************************************)
\* compare_params alone
InitDiff ==
    /\ dpc = "start"
    /\ current_content \in {Join(ls, <<NL>>) : ls \in SeqsUpTo(DiffLines, MaxLines)}
    /\ ref_content \in {Join(ls, <<NL>>) : ls \in SeqsUpTo(DiffLines, MaxLines)}
    /\ ignore_patterns \in SeqsUpTo({ <<"A">>, <<"A", "*">>, <<"?">> }, MaxPatterns)
    /\ curr_dict = EmptyDict
    /\ ref_dict = EmptyDict
    /\ added = EmptyDict
    /\ removed = EmptyDict
    /\ changed = EmptyDict
    /\ RuleIdle
    /\ CleanIdle
    /\ LogIdle

SpecDiff == InitDiff /\ [][DiffNext]_vars

\* validate_checklist_rule alone
InitRule ==
    /\ vpc = "start"
    /\ value \in {PyNone, PyTrue, PyFalse, V.float, V.abc, V.fifteen, V.five, V.zero,
                  V.true_mixed, V.true_padded,
                  V.a_comma_b, V.space, V.empty}
    /\ rule_str \in RuleStrings
    /\ val_str = <<>>
    /\ eval_value = PyNone
    /\ val_bool = FALSE
    /\ rules = <<>>
    /\ ri = 0
    /\ tokens = NoTokens
    /\ tree = NoTree
    /\ result = [valid |-> FALSE, msg |-> NoMsg]
    /\ raised = ""
    /\ evaluated = <<>>
    /\ DiffIdle
    /\ CleanIdle
    /\ LogIdle

SpecRule == InitRule /\ [][RuleNext]_vars

\* the retention pass: one call of cleanup_logs on a directory
InitClean ==
    /\ disk \in {d \in SUBSET Catalogue : Cardinality(d) <= MaxFiles}
    /\ present = {e.name : e \in disk}
    /\ dir_state \in {"ok", "missing", "unlistable"}
    /\ dir_state = "missing" => disk = {}
    /\ base_dir \in {<<"l", "o", "g", "s">>, <<"/", "w", "/", "l", "o", "g", "s", "/">>}
    /\ cpc = [p \in Procs |-> IF p = 1 THEN "start" ELSE "off"]
    /\ \E c \in Calls : args = [p \in Procs |-> IF p = 1 THEN c ELSE NoArgs]
    /\ excluded_paths = [p \in Procs |-> {}]
    /\ deleted_count = [p \in Procs |-> 0]
    /\ files = [p \in Procs |-> <<>>]
    /\ dir_list = [p \in Procs |-> <<>>]
    /\ remaining_files = [p \in Procs |-> <<>>]
    /\ total_size = [p \in Procs |-> 0]
    /\ pos = [p \in Procs |-> 0]
    /\ ret = [p \in Procs |-> -1]
    /\ removals = <<>>
    /\ DiffIdle
    /\ RuleIdle
    /\ LogIdle

SpecClean == InitClean /\ [][CleanNext]_vars

\* the item has a rule: the key is there and the text is not empty
HasRule(d) == d.rule.t = "str" /\ d.rule.s # <<>>

\* the item's value passes the item's rule, which is blank, 'required' or a
\* shorthand comparison
PassesRule(d) ==
    LET sub == Strip(d.rule.s)
    IN  IF sub = <<>> THEN TRUE
        ELSE IF sub = R.required THEN ~TrimmedFormEmpty(d.value)
        ELSE ValidAsWritten(d.value, <<"v", "a", "l", "u", "e", " ">> \o sub)

\* the messages of the empty fields, in the order of the checks
FieldMessages ==
    (IF flight_no = <<>> THEN <<"Flight ID is required.">> ELSE <<>>)
    \o (IF vehicle = <<>> THEN <<"Vehicle selection is required.">> ELSE <<>>)
    \o (IF date = <<>> THEN <<"Date is required.">> ELSE <<>>)

\* the items that have a rule and fail it, in the order of the dict
FailingItems == SelectSeq(checklist_items, LAMBDA d : HasRule(d) /\ ~PassesRule(d))

\* C20: validate_log_entry returns is_valid = True iff flight number, vehicle
\* and date are all non-empty and every item with a non-empty rule passes
\* validate_checklist_rule on its value; an item without a rule gives no
\* error, and the error list holds one message for every empty field and
\* every failing item, in order.
C20_AllFailuresReported ==
    /\ lpc # "raised"
    /\ lpc = "done" =>
          /\ log_ret.is_valid <=>
                /\ flight_no # <<>> /\ vehicle # <<>> /\ date # <<>>
                /\ \A i \in 1..Len(checklist_items) :
                      HasRule(checklist_items[i]) => PassesRule(checklist_items[i])
          /\ Len(log_ret.errors) = Len(FieldMessages) + Len(FailingItems)
          /\ \A i \in 1..Len(FieldMessages) :
                /\ log_ret.errors[i].item = <<>>
                /\ log_ret.errors[i].msg.text = FieldMessages[i]
          /\ \A i \in 1..Len(FailingItems) :
                /\ log_ret.errors[Len(FieldMessages) + i].item = FailingItems[i].name
                /\ log_ret.errors[Len(FieldMessages) + i].msg.text # ""

\* an entry with an empty field and two failing items got three messages
C20_Witness ==
    /\ lpc = "done"
    /\ ~log_ret.is_valid
    /\ Len(FieldMessages) = 1
    /\ Len(FailingItems) = 2
    /\ Len(log_ret.errors) = 3

\* the validation of a log entry: one call of validate_log_entry on a form
\* of up to MaxItems checklist items named a, b, c, ...
InitLog ==
    /\ lpc = "start"
    /\ flight_no \in {<<>>, <<"F", "1">>}
    /\ date \in {<<>>, <<"2", "0", "2", "6">>}
    /\ vehicle \in {<<>>, <<" ">>}
    /\ \E n \in 0..MaxItems :
          checklist_items \in
              [1..n -> [name : {<<"a">>, <<"b">>, <<"c">>, <<"d">>},
                        rule : {PyNone, PyStr(<<>>), PyStr(R.blank), PyStr(R.required),
                                PyStr(R.gt)},
                        value : {PyNone, V.fifteen, V.five}]]
    /\ \A i \in 1..Len(checklist_items) :
          checklist_items[i].name = <<<<"a">>, <<"b">>, <<"c">>, <<"d">>>>[i]
    /\ errors = <<>>
    /\ li = 0
    /\ log_ret = [is_valid |-> FALSE, errors |-> <<>>]
    /\ DiffIdle
    /\ RuleIdle
    /\ CleanIdle

SpecLog == InitLog /\ [][LogNext]_vars

\* parse_params on its own: compare_params of a text of up to MaxLines lines
\* with the empty reference and no pattern, so that the parsed map is the
\* first thing computed and everything in it is reported as added
InitParse ==
    /\ dpc = "start"
    /\ current_content \in
          {Join(ls, <<NL>>) :
              ls \in SeqsUpTo({ <<"K", "=", "V", " ", "#", "c">>, <<"/", "/", "c">>, <<"K", "=", "W", "/", "/", "c", "#", "d">>, <<"K", "/", "=", "1", "#", "/", "/">>,
                                <<"A", " ", "B", "=", "1">>, <<"A", ",", "B", "=", "1">>, <<"A", ",", "1", " ", "2">>, <<"A", " ", "\t", "1", " ", "2">>,
                                <<"=", "V">>, <<"=", "A", ",", "1">>, <<"K", "=">>, <<"K">>, <<" ">>, <<"#", "K", "=", "V">>, <<"K", "=", " ", "#", "c">> },
                              MaxLines)}
    /\ ref_content = <<>>
    /\ ignore_patterns = <<>>
    /\ curr_dict = EmptyDict
    /\ ref_dict = EmptyDict
    /\ added = EmptyDict
    /\ removed = EmptyDict
    /\ changed = EmptyDict
    /\ RuleIdle
    /\ CleanIdle
    /\ LogIdle

SpecParse == InitParse /\ [][DiffNext]_vars

\* two calls of cleanup_logs on one directory that can be listed, their
\* steps interleaved in any order; the directory holds an old file, a recent
\* one and a locked one, each call has the size quota on and may exclude the
\* old file
InitRace ==
    /\ disk \in {d \in SUBSET {e \in Catalogue :
                                  e.name \in {<<"2", "0", "2", "6", "-", "1", "0", "-", "0", "3", "_", "a">>,
                                              <<"2", "0", "2", "6", "-", "1", "3", "-", "0", "1", "_", "d">>,
                                              <<"x", ".", "l", "o", "g">>}} :
                     Cardinality(d) <= MaxFiles}
    /\ present = {e.name : e \in disk}
    /\ dir_state = "ok"
    /\ base_dir = <<"l", "o", "g", "s">>
    /\ cpc = [p \in Procs |-> "start"]
    /\ args \in [Procs -> {c \in Calls :
                               /\ c.max_size_gb.n > 0
                               /\ c.excluded_paths \in
                                     {<<>>, <<<<"l", "o", "g", "s", "/", "2", "0", "2", "6", "-", "1", "0", "-", "0", "3", "_", "a">>>>}}]
    /\ excluded_paths = [p \in Procs |-> {}]
    /\ deleted_count = [p \in Procs |-> 0]
    /\ files = [p \in Procs |-> <<>>]
    /\ dir_list = [p \in Procs |-> <<>>]
    /\ remaining_files = [p \in Procs |-> <<>>]
    /\ total_size = [p \in Procs |-> 0]
    /\ pos = [p \in Procs |-> 0]
    /\ ret = [p \in Procs |-> -1]
    /\ removals = <<>>
    /\ DiffIdle
    /\ RuleIdle
    /\ LogIdle

SpecRace == InitRace /\ [][CleanNext]_vars

====
